---- MODULE Spec2Model ----
(***************************************************************************)
(* Download orchestration of youpy: the web-GUI service (guiService.py),   *)
(* the command-line pipelines (youtubeCore.py) and the shared download     *)
(* helper (downloadHelper.py), with the History table, the download        *)
(* directory, the progress queue and the terminal progress table.          *)
(***************************************************************************)
EXTENDS Integers, Sequences, FiniteSets, TLC

VARIABLES
    History,         \* rows of the History table of download_history.db
    disk,            \* files of the downloads directory
    pipeline,        \* the operator-facing mode that is running, or "idle"
    mainpc,          \* position of the pipeline's controlling thread
    opts,            \* arguments of the running pipeline
    jobs,            \* one record per entry the running pipeline has processed
    results,         \* downloadYoutubePlaylist: the rows read before the loop
    progress_queue,  \* guiService.progress_queue
    active_downloads,\* guiService.active_downloads
    downloads_dict,  \* ProgressBar.downloads_dict
    clock,           \* number of pipeline runs started: the date of a write
    runsLeft,        \* pipeline runs the operator may still start
    entriesLeft,     \* items the pipelines may still be given
    samplesLeft,     \* downloading samples the fetches may still deliver
    enable_progress_bar, \* ProgressBar.enable_progress_bar
    formats,         \* meta["formats"]: the raw formats of the item looked at
    groupedStreams,  \* the result of groupYoutubeStreams
    selpc,           \* position of the thread inside the stream selection
    choices,         \* selectStreams: the tokens of the line read last
    selected,        \* selectStreams: the tuple it returned
    warnings,        \* selectStreams: warnings printed so far
    output,          \* what the caller of selectStreams computed from the tuple
    now,             \* time.time(), in tenths of a second
    last_execution_time, \* ProgressBar.last_execution_time
    throttle_lock,   \* ProgressBar.throttle_lock: the thread that holds it, or 0
    hooks,           \* the call of progressBarHook each downloading thread is in
    renders,         \* the passes of displayProgressBars so far
    cursor,          \* the row of the terminal cursor, from where it started
    video_links,     \* the lines of video-links.txt
    totalSize,       \* downloadYoutubePlaylist: the local totalSize
    totalDuration,   \* downloadYoutubePlaylist: the local totalDuration
    call,            \* the function a caller is inside, with its arguments
    retval,          \* what the function of call returned
    delivered        \* the events each consumer of the progress stream has got

vars == << History, disk, pipeline, mainpc, opts, jobs, results, progress_queue,
           active_downloads, downloads_dict, clock, runsLeft, entriesLeft,
           samplesLeft, enable_progress_bar, formats, groupedStreams, selpc,
           choices, selected, warnings, output, now, last_execution_time,
           throttle_lock, hooks, renders, cursor, video_links, totalSize,
           totalDuration, call, retval, delivered >>

\* The stream selection of the command-line pipelines.
selVars == << formats, groupedStreams, selpc, choices, selected, warnings, output >>

\* The class-level state of ProgressBar.
barVars == << downloads_dict, enable_progress_bar >>

\* The throttle of ProgressBar, the threads inside its hook, the terminal.
pbVars == << now, last_execution_time, throttle_lock, hooks, renders, cursor >>

\* The batch link file.
linkVars == << video_links >>

\* The totals that downloadYoutubePlaylist reports.
sumVars == << totalSize, totalDuration >>

\* A call of a function of the page or of a helper, and the progress stream.
apiVars == << call, retval, delivered >>

----------------------------------------------------------------------------
(* Bounds of the model *)

MaxRuns == 2
MaxEntries == 2
MaxPoolEntries == 5
MaxSamples == 1
MaxBarRuns == 2
MaxBarEntries == 2
MaxBarSamples == 2
MaxFailEntries == 3
MaxTokens == 5
MaxWarnings == 2
MaxFormats == 2
MaxOrderFormats == 3
MaxHookThreads == 2
MaxHookCalls == 4
MaxTicks == 4
MaxLinkRuns == 2
MaxLinks == 2
MaxLinkEntries == 4
MaxTotalEntries == 3
MaxBytes == 8
MaxPrompts == 3
MaxCount == 3
MaxRangeTokens == 3
MaxPickFormats == 3

(* Program constants *)

max_workers == 4

Ids == {"a", "b"}
PoolIds == {"a"}
None == "None"

\* A link is the form of its text and the item it names; "bad" matches no
\* pattern of idExtractor.
Forms == {"watch", "youtu.be", "bad"}
Links == [form : Forms, id : Ids]

idExtractor(url) == IF url.form = "bad" THEN None ELSE url.id

----------------------------------------------------------------------------
(* The History table: video_id TEXT PRIMARY KEY, filename, location, date *)

Row(id, filename, location, date) ==
    [video_id |-> id, filename |-> filename, location |-> location, date |-> date]

\* SELECT * FROM History WHERE video_id = ?
Select(H, id) == {r \in H : r.video_id = id}

\* The PRIMARY KEY constraint: an INSERT of a present key raises IntegrityError.
InsertAllowedNoKey(H, row) == TRUE

InsertAllowed(H, row) == \A r \in H : r.video_id # row.video_id

\* UPDATE History SET filename, location, date WHERE video_id = :video_id
Update(H, row) == {IF r.video_id = row.video_id THEN row ELSE r : r \in H}

\* The statement downloadFromYoutube / downloadYoutubeVideo builds.
QueryKind(downloaded_before) == IF downloaded_before THEN "UPDATE" ELSE "INSERT"

\* cursor.execute(query, params): the table afterwards, and whether it raised.
ExecRaises(H, kind, row) == kind = "INSERT" /\ ~InsertAllowed(H, row)

\* A write-back of the table as it was read before the loop.
ExecuteStale(H, kind, row) ==
    IF kind = "UPDATE" THEN Update(results, row) ELSE results \cup {row}

Execute(H, kind, row) ==
    IF kind = "UPDATE" THEN Update(H, row)
    ELSE IF InsertAllowed(H, row) THEN H \cup {row} ELSE H

----------------------------------------------------------------------------
(* Files: a path is location, base name and extension; data 0 is an empty file *)

File(loc, base, ext, data) == [loc |-> loc, base |-> base, ext |-> ext, data |-> data]

Exists(d, loc, base, ext) ==
    \E f \in d : f.loc = loc /\ f.base = base /\ f.ext = ext

Size(d, loc, base, ext) ==
    LET f == CHOOSE f \in d : f.loc = loc /\ f.base = base /\ f.ext = ext IN f.data

\* open(path, "w") and write: the file is replaced.
WriteFile(d, loc, base, ext, data) ==
    {f \in d : ~(f.loc = loc /\ f.base = base /\ f.ext = ext)}
        \cup {File(loc, base, ext, data)}

\* The media file a successful ydl.download leaves (an existing one is kept).
PutMedia(d, loc, base, ext, data) ==
    IF Exists(d, loc, base, ext) THEN d ELSE d \cup {File(loc, base, ext, data)}

----------------------------------------------------------------------------
(* Jobs: one record per entry a pipeline has looked at *)

NoFilename == [base |-> << 0, None >>, ext |-> ""]
NoRow == Row(None, NoFilename, "", 0)

\* st: "skipped" (no job was created; why says why), "queued" (submitted to the
\* executor), "running" (inside the fetch), "returned" (the fetch has returned
\* to a caller that still acts on it), "done".
\* out: outcome of ydl.download: "ok", "status" (nonzero code), "exc" (raised).
\* ret: what the job's function handed back: "query", "failure", "raised".
\* sample: status of the last sample progressBarHook was called with.
NewJob(id, idx, before, st, why) ==
    [id |-> id, idx |-> idx, before |-> before, st |-> st, why |-> why,
     out |-> "none", ret |-> "none", row |-> NoRow, wrote |-> FALSE,
     prompted |-> FALSE, reported |-> FALSE, ext |-> "", sample |-> "none"]

Submitted(j) == j.st \in {"queued", "running", "returned", "done"}
Terminal(j) == j.st \in {"skipped", "done"}

Running == {i \in 1..Len(jobs) : jobs[i].st = "running"}

----------------------------------------------------------------------------
(* guiService.progress_queue and guiService.active_downloads *)

Event(id, status) == [video_id |-> id, status |-> status]

\* web_progress_hook: the update is stored under the id and put on the queue
\* (queue.Queue() has no maxsize, so put_nowait never drops).
WebHookStore(a, id, status) == [a EXCEPT ![id] = status]
WebHookQueue(q, id, status) == Append(q, Event(id, status))

----------------------------------------------------------------------------
(* ProgressBar.downloads_dict: an ordered dict of id -> entry *)

DictHas(d, id) == \E k \in 1..Len(d) : d[k].id = id

\* downloads_dict.pop(key, None)
DictPop(d, id) == SelectSeq(d, LAMBDA e : e.id # id)

DictSetStatus(d, id, status) ==
    [k \in 1..Len(d) |-> IF d[k].id = id THEN [d[k] EXCEPT !.status = status]
                                          ELSE d[k]]

\* progressBarHook, the update of the table: "finished" marks a present
\* entry, "downloading" creates the entry if need be and overwrites it, any
\* other status ("error") leaves the table alone.
BarUpdate(d, id, status) ==
    IF status = "finished" THEN DictSetStatus(d, id, "finished")
    ELSE IF status = "downloading"
    THEN IF DictHas(d, id) THEN DictSetStatus(d, id, "downloading")
         ELSE Append(d, [id |-> id, status |-> "downloading"])
    ELSE d

\* displayProgressBars: the copy is printed, then _moveCursorUp deletes the
\* entries the copy shows as finished.
displayProgressBars(d) == SelectSeq(d, LAMBDA e : e.status # "finished")

----------------------------------------------------------------------------
(* What the pipelines hand to the fetch *)

GuiPipelines == {"gui_single", "gui_batch", "gui_playlist"}
CliPipelines == {"cli_single", "cli_playlist"}
PoolPipelines == {"gui_batch", "gui_playlist"}
\* The callers of downloadFromYoutube: the GUI tasks, which install
\* web_progress_hook, and the command-line batch, which installs
\* ProgressBar.progressBarHook.
HelperPipelines == GuiPipelines \cup {"cli_multi"}

\* outtmpl: "%(title)s" or "(index). %(title)s", without the extension.
OutBase(p, j) == IF p \in {"gui_playlist", "cli_playlist"} THEN << j.idx, j.id >>
                 ELSE << 0, j.id >>

\* file_ext of the GUI tasks: "m4a" if audio_only else "mkv".
FileExt(o) == IF o.audio_only THEN "m4a" ELSE "mkv"

\* The extension of the file the source leaves: the merged container for
\* bestvideo+bestaudio (merge_output_format), the stream's own for bestaudio.
GuiProducedExts(o) == IF o.audio_only THEN {"m4a", "webm"} ELSE {"mkv"}

Opts(audio_only, write_desc, location, video_id) ==
    [audio_only |-> audio_only, write_desc |-> write_desc, location |-> location,
     video_id |-> video_id]

NoOpts == Opts(FALSE, FALSE, "", None)

Idle == mainpc \in {"idle", "done"}

\* A new run: the controlling thread starts, the job list is the run's own.
BeginRun(p, pc, o) ==
    /\ Idle
    /\ runsLeft > 0
    /\ progress_queue = << >>
    /\ pipeline' = p
    /\ mainpc' = pc
    /\ opts' = o
    /\ clock' = clock + 1
    /\ runsLeft' = runsLeft - 1
    /\ UNCHANGED samplesLeft

SetJob(i, j) == jobs' = [jobs EXCEPT ![i] = j]

----------------------------------------------------------------------------
(* guiService.start_batch_download and start_playlist_download *)

start_batch_download(audio_only, write_desc) ==
    /\ BeginRun("gui_batch", "loop", Opts(audio_only, write_desc, "day", None))
    /\ jobs' = << >>
    /\ UNCHANGED << entriesLeft, History, disk, results, progress_queue, active_downloads,
                    barVars >>
    /\ UNCHANGED selVars
    /\ UNCHANGED pbVars
    /\ UNCHANGED << linkVars, sumVars, apiVars >>

\* The folder is the playlist title, or the date when the title could not be
\* extracted.
start_playlist_download(audio_only, write_desc, folder) ==
    /\ BeginRun("gui_playlist", "loop", Opts(audio_only, write_desc, folder, None))
    /\ jobs' = << >>
    /\ UNCHANGED << entriesLeft, History, disk, results, progress_queue, active_downloads,
                    barVars >>
    /\ UNCHANGED selVars
    /\ UNCHANGED pbVars
    /\ UNCHANGED << linkVars, sumVars, apiVars >>

\* A loop that an earlier entry's failure has ended.
LoopBodyUntilFailure(id, meta) ==
    /\ \A k \in 1..Len(jobs) :
          /\ jobs[k].why \notin {"unresolved", "extract_error"}
          /\ jobs[k].out \notin {"status", "exc"}
    /\ jobs' = Append(jobs, NewJob(id, Len(jobs) + 1, Select(History, id) # {},
                                   IF id # None /\ meta = "ok" THEN "queued"
                                   ELSE "skipped", ""))
    /\ UNCHANGED progress_queue

\* One iteration of the loop of batch_download_task / playlist_download_task:
\* the id, the History lookup, extract_info, and the submit.
\* meta: "ok", "none" (extract_info returned nothing), "exc" (it raised).
LoopBody(id, meta) ==
    LET idx == Len(jobs) + 1
        before == Select(History, id) # {}
    IN  IF id = None
        THEN /\ jobs' = Append(jobs, NewJob(id, idx, FALSE, "skipped", "invalid"))
             /\ UNCHANGED progress_queue
        ELSE IF meta = "ok"
        THEN /\ jobs' = Append(jobs, NewJob(id, idx, before, "queued", ""))
             /\ UNCHANGED progress_queue
        ELSE IF meta = "none"
        THEN /\ jobs' = Append(jobs, NewJob(id, idx, before, "skipped", "unresolved"))
             /\ UNCHANGED progress_queue
        ELSE /\ jobs' = Append(jobs, [NewJob(id, idx, before, "skipped", "extract_error")
                                        EXCEPT !.reported = TRUE])
             /\ progress_queue' = Append(progress_queue, Event(id, "error"))

batch_download_task(url, meta) ==
    /\ pipeline = "gui_batch"
    /\ mainpc = "loop"
    /\ entriesLeft > 0
    /\ entriesLeft' = entriesLeft - 1
    /\ LoopBody(idExtractor(url), meta)
    /\ UNCHANGED << History, disk, pipeline, mainpc, opts, results,
                    active_downloads, barVars, clock, runsLeft,
                    samplesLeft >>
    /\ UNCHANGED selVars
    /\ UNCHANGED pbVars
    /\ UNCHANGED << linkVars, sumVars, apiVars >>

playlist_download_task(id, meta) ==
    /\ pipeline = "gui_playlist"
    /\ mainpc = "loop"
    /\ entriesLeft > 0
    /\ entriesLeft' = entriesLeft - 1
    /\ LoopBody(id, meta)
    /\ UNCHANGED << History, disk, pipeline, mainpc, opts, results,
                    active_downloads, barVars, clock, runsLeft,
                    samplesLeft >>
    /\ UNCHANGED selVars
    /\ UNCHANGED pbVars
    /\ UNCHANGED << linkVars, sumVars, apiVars >>

\* The list is exhausted: the with-block of the executor is left, which waits
\* for every submitted job (shutdown(wait=True)).
ExecutorShutdown ==
    /\ pipeline \in PoolPipelines
    /\ mainpc = "loop"
    /\ mainpc' = "wait"
    /\ UNCHANGED << History, disk, pipeline, opts, jobs, results, progress_queue,
                    active_downloads, barVars, clock, runsLeft,
                    entriesLeft, samplesLeft >>
    /\ UNCHANGED selVars
    /\ UNCHANGED pbVars
    /\ UNCHANGED << linkVars, sumVars, apiVars >>

\* A worker of ThreadPoolExecutor(max_workers=4) is free to take a work item.
WorkerFreeUnbounded == TRUE

WorkerFreeNoReuse ==
    Cardinality({i \in 1..Len(jobs) : jobs[i].st \in {"running", "done"}}) < max_workers

WorkerFree == Cardinality(Running) < max_workers

\* A worker takes the oldest queued work item and calls downloadFromYoutube.
ExecutorRun(i) ==
    /\ pipeline \in PoolPipelines
    /\ i \in 1..Len(jobs)
    /\ jobs[i].st = "queued"
    /\ \A k \in 1..(i - 1) : jobs[k].st # "queued"
    /\ WorkerFree
    /\ SetJob(i, [jobs[i] EXCEPT !.st = "running"])
    /\ UNCHANGED << History, disk, pipeline, mainpc, opts, results, progress_queue,
                    active_downloads, barVars, clock, runsLeft,
                    entriesLeft, samplesLeft >>
    /\ UNCHANGED selVars
    /\ UNCHANGED pbVars
    /\ UNCHANGED << linkVars, sumVars, apiVars >>

\* The completion event put as soon as the list is exhausted.
RunCompletedEarly ==
    /\ pipeline \in PoolPipelines
    /\ mainpc = "wait"
    /\ mainpc' = "done"
    /\ progress_queue' = Append(progress_queue,
            Event(None, IF pipeline = "gui_batch" THEN "batch_completed"
                        ELSE "playlist_completed"))
    /\ UNCHANGED << History, disk, pipeline, opts, jobs, results,
                    active_downloads, barVars, clock, runsLeft,
                    entriesLeft, samplesLeft >>
    /\ UNCHANGED selVars
    /\ UNCHANGED pbVars
    /\ UNCHANGED << linkVars, sumVars, apiVars >>

\* conn.close() and the completion event, once the executor has drained.
RunCompleted ==
    /\ pipeline \in PoolPipelines
    /\ mainpc = "wait"
    /\ \A i \in 1..Len(jobs) : Terminal(jobs[i])
    /\ mainpc' = "done"
    /\ progress_queue' = Append(progress_queue,
            Event(None, IF pipeline = "gui_batch" THEN "batch_completed"
                        ELSE "playlist_completed"))
    /\ UNCHANGED << History, disk, pipeline, opts, jobs, results,
                    active_downloads, barVars, clock, runsLeft,
                    entriesLeft, samplesLeft >>
    /\ UNCHANGED selVars
    /\ UNCHANGED pbVars
    /\ UNCHANGED << linkVars, sumVars, apiVars >>

----------------------------------------------------------------------------
(* downloadHelper.downloadFromYoutube, as the GUI tasks call it *)

\* A description written whenever it is asked for.
WriteDescriptionAlways(d, write_desc, loc, base, data) ==
    IF write_desc THEN WriteFile(d, loc, base, "txt", data) ELSE d

\* if write_desc and (not exists(desc) or getsize(desc) == 0): write it.
WriteDescription(d, write_desc, loc, base, data) ==
    IF write_desc /\ (~Exists(d, loc, base, "txt") \/ Size(d, loc, base, "txt") = 0)
    THEN WriteFile(d, loc, base, "txt", data)
    ELSE d

\* The failure cleanup: ProgressBar.downloads_dict.pop(meta["display_id"], None)
\* (display_id is the id for every item of the source).
FailureCleanupNone(d, id) == d

FailureCleanup(d, id) == DictPop(d, id)

\* The whole call for job i.  out is what ydl.download did: "ok", "status" (a
\* nonzero status code) or "exc" (it raised); ext is the extension of the file
\* it left; errHook says whether the downloader reported status "error" to
\* the progress hook before giving up (it need not).  With web_progress_hook
\* the last call of the hook is part of this step; the calls of
\* progressBarHook are steps of their own (see below) and have been made.
downloadFromYoutube(i, out, ext, errHook) ==
    /\ pipeline \in HelperPipelines
    /\ i \in Running
    /\ LET j == jobs[i]
           base == OutBase(pipeline, j)
           loc == opts.location
           row == Row(j.id, [base |-> base, ext |-> FileExt(opts)], loc, clock)
           after == IF pipeline \in PoolPipelines THEN "done" ELSE "returned"
           web == pipeline \in GuiPipelines
       IN  IF out = "ok"
           THEN /\ ext \in GuiProducedExts(opts)
                /\ errHook = FALSE
                /\ ~web => j.sample = "finished"
                /\ disk' = WriteDescription(PutMedia(disk, loc, base, ext, clock),
                                            opts.write_desc, loc, base, clock)
                /\ progress_queue' = IF web
                        THEN WebHookQueue(progress_queue, j.id, "finished")
                        ELSE progress_queue
                /\ active_downloads' = IF web
                        THEN WebHookStore(active_downloads, j.id, "finished")
                        ELSE active_downloads
                /\ SetJob(i, [j EXCEPT !.st = after, !.out = "ok", !.ret = "query",
                                       !.row = row, !.ext = ext])
                /\ UNCHANGED downloads_dict
           ELSE /\ ext = ""
                /\ downloads_dict' = FailureCleanup(downloads_dict, j.id)
                /\ ~web => errHook = (j.sample = "error")
                /\ IF errHook /\ web
                   THEN /\ progress_queue' = WebHookQueue(progress_queue, j.id, "error")
                        /\ active_downloads' = WebHookStore(active_downloads, j.id, "error")
                   ELSE UNCHANGED << progress_queue, active_downloads >>
                /\ SetJob(i, [j EXCEPT !.st = after, !.out = out, !.ret = "failure",
                                       !.reported = errHook /\ web])
                /\ UNCHANGED disk
    /\ UNCHANGED << History, pipeline, mainpc, opts, results, clock, runsLeft,
                    entriesLeft, samplesLeft, enable_progress_bar >>
    /\ UNCHANGED selVars
    /\ UNCHANGED pbVars
    /\ UNCHANGED << linkVars, sumVars, apiVars >>

\* web_progress_hook with status "downloading", called from inside the fetch.
web_progress_hook(i) ==
    /\ pipeline \in GuiPipelines
    /\ i \in Running
    /\ samplesLeft > 0
    /\ samplesLeft' = samplesLeft - 1
    /\ progress_queue' = WebHookQueue(progress_queue, jobs[i].id, "downloading")
    /\ active_downloads' = WebHookStore(active_downloads, jobs[i].id, "downloading")
    /\ UNCHANGED << History, disk, pipeline, mainpc, opts, jobs, results,
                    barVars, clock, runsLeft, entriesLeft >>
    /\ UNCHANGED selVars
    /\ UNCHANGED pbVars
    /\ UNCHANGED << linkVars, sumVars, apiVars >>

----------------------------------------------------------------------------
(* guiService.start_download and its download_task *)

start_download(url, audio_only, write_desc) ==
    LET video_id == idExtractor(url)
    IN  /\ BeginRun("gui_single", IF video_id = None THEN "done" ELSE "task",
                    Opts(audio_only, write_desc, "day", video_id))
        /\ entriesLeft > 0
        /\ entriesLeft' = entriesLeft - 1
        /\ jobs' = IF video_id = None
                   THEN << NewJob(None, 0, FALSE, "skipped", "invalid") >>
                   ELSE << >>
        /\ UNCHANGED << History, disk, results, progress_queue, active_downloads,
                        barVars >>
        /\ UNCHANGED selVars
        /\ UNCHANGED pbVars
        /\ UNCHANGED << linkVars, sumVars, apiVars >>

\* The lookup and extract_info of download_task.
download_task(meta) ==
    /\ pipeline = "gui_single"
    /\ mainpc = "task"
    /\ LET id == opts.video_id
           before == Select(History, id) # {}
       IN  IF meta = "ok"
           THEN /\ jobs' = << NewJob(id, 0, before, "running", "") >>
                /\ mainpc' = "fetch"
                /\ UNCHANGED progress_queue
           ELSE /\ jobs' = << [NewJob(id, 0, before, "skipped",
                                      IF meta = "none" THEN "unresolved"
                                      ELSE "extract_error")
                               EXCEPT !.reported = TRUE] >>
                /\ mainpc' = "done"
                /\ progress_queue' = Append(progress_queue, Event(id, "error"))
    /\ UNCHANGED << History, disk, pipeline, opts, results, active_downloads,
                    barVars, clock, runsLeft, entriesLeft, samplesLeft >>
    /\ UNCHANGED selVars
    /\ UNCHANGED pbVars
    /\ UNCHANGED << linkVars, sumVars, apiVars >>

\* if len(query) == 2: a (query, params) pair, not the failure triple.
IsQueryAlways(ret) == TRUE

IsQuery(ret) == ret = "query"

\* What download_task does with the value downloadFromYoutube returned.
download_task_result ==
    /\ pipeline = "gui_single"
    /\ mainpc = "fetch"
    /\ jobs[1].st = "returned"
    /\ LET j == jobs[1]
           kind == QueryKind(j.before)
       IN  IF IsQuery(j.ret)
           THEN IF ExecRaises(History, kind, j.row)
                THEN /\ UNCHANGED History
                     /\ progress_queue' = Append(progress_queue, Event(j.id, "error"))
                     /\ SetJob(1, [j EXCEPT !.st = "done", !.ret = "raised",
                                            !.reported = TRUE])
                ELSE /\ History' = Execute(History, kind, j.row)
                     /\ progress_queue' = Append(progress_queue, Event(j.id, "completed"))
                     /\ SetJob(1, [j EXCEPT !.st = "done", !.wrote = TRUE])
           ELSE /\ UNCHANGED History
                /\ progress_queue' = Append(progress_queue, Event(j.id, "error"))
                /\ SetJob(1, [j EXCEPT !.st = "done", !.reported = TRUE])
    /\ mainpc' = "done"
    /\ UNCHANGED << disk, pipeline, opts, results, active_downloads, barVars,
                    clock, runsLeft, entriesLeft, samplesLeft >>
    /\ UNCHANGED selVars
    /\ UNCHANGED pbVars
    /\ UNCHANGED << linkVars, sumVars, apiVars >>

\* download_task_result in the steps of its thread, as another thread sees
\* them: c.execute(*query) and conn.commit(), then the put of the event.

\* The thread goes on to the put without a write.
download_task_commitNone ==
    /\ pipeline = "gui_single"
    /\ mainpc = "fetch"
    /\ jobs[1].st = "returned"
    /\ IsQuery(jobs[1].ret)
    /\ ~ExecRaises(History, QueryKind(jobs[1].before), jobs[1].row)
    /\ mainpc' = "commit"
    /\ UNCHANGED << History, disk, pipeline, opts, jobs, results, progress_queue,
                    active_downloads, barVars, clock, runsLeft, entriesLeft,
                    samplesLeft >>
    /\ UNCHANGED selVars
    /\ UNCHANGED pbVars
    /\ UNCHANGED << linkVars, sumVars, apiVars >>

\* if len(query) == 2: c.execute(*query); conn.commit()
download_task_commit ==
    /\ pipeline = "gui_single"
    /\ mainpc = "fetch"
    /\ jobs[1].st = "returned"
    /\ IsQuery(jobs[1].ret)
    /\ ~ExecRaises(History, QueryKind(jobs[1].before), jobs[1].row)
    /\ History' = Execute(History, QueryKind(jobs[1].before), jobs[1].row)
    /\ SetJob(1, [jobs[1] EXCEPT !.wrote = TRUE])
    /\ mainpc' = "commit"
    /\ UNCHANGED << disk, pipeline, opts, results, progress_queue, active_downloads,
                    barVars, clock, runsLeft, entriesLeft, samplesLeft >>
    /\ UNCHANGED selVars
    /\ UNCHANGED pbVars
    /\ UNCHANGED << linkVars, sumVars, apiVars >>

\* progress_queue.put({"video_id": video_id, "status": "completed", ...})
download_task_put ==
    /\ pipeline = "gui_single"
    /\ mainpc = "commit"
    /\ progress_queue' = Append(progress_queue, Event(jobs[1].id, "completed"))
    /\ SetJob(1, [jobs[1] EXCEPT !.st = "done"])
    /\ mainpc' = "done"
    /\ UNCHANGED << History, disk, pipeline, opts, results, active_downloads,
                    barVars, clock, runsLeft, entriesLeft, samplesLeft >>
    /\ UNCHANGED selVars
    /\ UNCHANGED pbVars
    /\ UNCHANGED << linkVars, sumVars, apiVars >>

\* The failure triple, or a write that raises: the error event.
download_task_error ==
    /\ pipeline = "gui_single"
    /\ mainpc = "fetch"
    /\ jobs[1].st = "returned"
    /\ ~(/\ IsQuery(jobs[1].ret)
          /\ ~ExecRaises(History, QueryKind(jobs[1].before), jobs[1].row))
    /\ download_task_result

\* A consumer of the event stream takes the oldest event, at any time.
get_progress_updates_next ==
    /\ progress_queue # << >>
    /\ progress_queue' = Tail(progress_queue)
    /\ UNCHANGED << History, disk, pipeline, mainpc, opts, jobs, results,
                    active_downloads, barVars, clock, runsLeft,
                    entriesLeft, samplesLeft >>
    /\ UNCHANGED selVars
    /\ UNCHANGED pbVars
    /\ UNCHANGED << linkVars, sumVars, apiVars >>

----------------------------------------------------------------------------
(* youtubeCore: the command-line pipelines *)

\* Containers the operator's selection can lead to.
CliExts == {"mp4", "webm"}
Picks == {"empty"} \cup CliExts

\* os.path.isfile(os.path.join(location, filename + suffix)): the recorded
\* name with a suffix appended names a file only if the name had no extension.
IsFileWithSuffix(d, row, suffix) ==
    /\ row.filename.ext = ""
    /\ Exists(d, row.location, row.filename.base, suffix)

\* os.path.isfile(os.path.join(location, filename))
IsFile(d, row) == Exists(d, row.location, row.filename.base, row.filename.ext)

\* downloadSingleYoutubeVideo line 307: the recorded name as .mp4 or .m4a.
SingleFilePresent(d, row) ==
    IsFileWithSuffix(d, row, "mp4") \/ IsFileWithSuffix(d, row, "m4a")

\* downloadYoutubePlaylist line 452: the recorded name as it is.
PlaylistFilePresent(d, row) == IsFile(d, row)

TheRow(rows) == CHOOSE r \in rows : TRUE

\* The checks without the return / continue that follows a refusal.
TriageNoReturn(id, idx, rows, present, answer, meta, pick) ==
    LET before == rows # {}
        job == NewJob(id, idx, before, "running", "")
    IN  IF before /\ present
        THEN [job EXCEPT !.st = "skipped", !.why = "already"]
        ELSE IF meta # "ok"
        THEN [job EXCEPT !.st = "skipped", !.why = "unresolved", !.prompted = before]
        ELSE IF pick = "empty"
        THEN [job EXCEPT !.st = "skipped", !.why = "noselect", !.prompted = before]
        ELSE [job EXCEPT !.ext = pick, !.prompted = before,
                         !.why = IF before /\ ~answer THEN "refused" ELSE ""]

\* What an entry comes to before any transfer: the History check, the prompt,
\* the metadata and the selection.  answer is the operator's reply to "download
\* it again?", meta the result of extract_info, pick the selection.
Triage(id, idx, rows, present, answer, meta, pick) ==
    LET before == rows # {}
        job == NewJob(id, idx, before, "running", "")
    IN  IF before /\ present
        THEN [job EXCEPT !.st = "skipped", !.why = "already"]
        ELSE IF before /\ ~answer
        THEN [job EXCEPT !.st = "skipped", !.why = "refused", !.prompted = TRUE]
        ELSE IF meta # "ok"
        THEN [job EXCEPT !.st = "skipped", !.why = "unresolved", !.prompted = before]
        ELSE IF pick = "empty"
        THEN [job EXCEPT !.st = "skipped", !.why = "noselect", !.prompted = before]
        ELSE [job EXCEPT !.ext = pick, !.prompted = before]

\* downloadSingleYoutubeVideo up to the call of downloadYoutubeVideo.  The
\* metadata is fetched first: without it the function raises.
downloadSingleYoutubeVideo(id, answer, meta, pick) ==
    LET rows == Select(History, id)
        present == rows # {} /\ SingleFilePresent(disk, TheRow(rows))
        job == IF meta # "ok"
               THEN NewJob(id, 0, FALSE, "skipped", "unresolved")
               ELSE Triage(id, 0, rows, present, answer, meta, pick)
    IN  /\ BeginRun("cli_single", IF Terminal(job) THEN "done" ELSE "call",
                    Opts(FALSE, TRUE, "downloads", id))
        /\ entriesLeft > 0
        /\ entriesLeft' = entriesLeft - 1
        /\ jobs' = << job >>
        /\ UNCHANGED << History, disk, results, progress_queue, active_downloads,
                        barVars >>
        /\ UNCHANGED selVars
        /\ UNCHANGED pbVars
        /\ UNCHANGED << linkVars, sumVars, apiVars >>

\* meta["duration"] of an item, in seconds.
Duration(id) == IF id = "a" THEN 125 ELSE 60

\* The size extractSelectedStreams returns for the selection, in bytes.
StreamsSize(pick) == IF pick = "mp4" THEN 1000 ELSE IF pick = "webm" THEN 300 ELSE 0

\* Totals that grow with every entry of the loop.
AccumulateAlways(total, job, amount) == total + amount

\* totalDuration += ..., totalSize += ...: reached by the entries that no
\* continue has ended, just before their thread is started.
Accumulate(total, job, amount) == IF Submitted(job) THEN total + amount ELSE total

\* downloadYoutubePlaylist up to its loop: the playlist metadata (without it
\* the function raises) and the History rows of the entries, read once; the
\* totals are the locals of the call, 0 until the loop adds to them.
downloadYoutubePlaylist(playlistMeta) ==
    /\ BeginRun("cli_playlist", IF playlistMeta = "ok" THEN "loop" ELSE "done",
                Opts(FALSE, TRUE, "title", None))
    /\ jobs' = << >>
    /\ results' = IF playlistMeta = "ok" THEN History ELSE results
    /\ totalSize' = 0
    /\ totalDuration' = 0
    /\ UNCHANGED << entriesLeft, History, disk, progress_queue, active_downloads,
                    barVars >>
    /\ UNCHANGED selVars
    /\ UNCHANGED pbVars
    /\ UNCHANGED << linkVars, apiVars >>

\* One iteration of the loop: the entry is skipped, or a thread is started on
\* downloadYoutubeVideo.
downloadYoutubePlaylist_entry(id, answer, meta, pick) ==
    /\ pipeline = "cli_playlist"
    /\ mainpc = "loop"
    /\ entriesLeft > 0
    /\ entriesLeft' = entriesLeft - 1
    /\ LET rows == Select(results, id)
           present == rows # {} /\ PlaylistFilePresent(disk, TheRow(rows))
           job == Triage(id, Len(jobs) + 1, rows, present, answer, meta, pick)
       IN  /\ jobs' = Append(jobs, job)
           /\ totalDuration' = Accumulate(totalDuration, job, Duration(id))
           /\ totalSize' = Accumulate(totalSize, job, StreamsSize(pick))
    /\ UNCHANGED << History, disk, pipeline, mainpc, opts, results, progress_queue,
                    active_downloads, barVars, clock, runsLeft,
                    samplesLeft >>
    /\ UNCHANGED selVars
    /\ UNCHANGED pbVars
    /\ UNCHANGED << linkVars, apiVars >>

\* The loop is over: the threads are joined.
downloadYoutubePlaylist_join ==
    /\ pipeline = "cli_playlist"
    /\ \/ /\ mainpc = "loop"
          /\ mainpc' = "wait"
       \/ /\ mainpc = "wait"
          /\ \A i \in 1..Len(jobs) : Terminal(jobs[i])
          /\ mainpc' = "done"
    /\ UNCHANGED << History, disk, pipeline, opts, jobs, results, progress_queue,
                    active_downloads, barVars, clock, runsLeft,
                    entriesLeft, samplesLeft >>
    /\ UNCHANGED selVars
    /\ UNCHANGED pbVars
    /\ UNCHANGED << linkVars, sumVars, apiVars >>

\* downloadYoutubeVideo "stores the video description into a text file"
\* whenever it is called: the command-line pipelines always ask for one.
\* downloadYoutubeVideo, the transfer: ydl.download returns a nonzero status
\* (the function returns it), raises (nothing catches it: the thread or the
\* pipeline ends), or leaves the file.
downloadYoutubeVideo(i, out) ==
    /\ pipeline \in CliPipelines
    /\ i \in Running
    /\ LET j == jobs[i]
           base == OutBase(pipeline, j)
           loc == opts.location
       IN  IF out = "ok"
           THEN /\ disk' = PutMedia(disk, loc, base, j.ext, clock)
                /\ SetJob(i, [j EXCEPT !.st = "returned", !.out = "ok",
                                       !.row = Row(j.id, [base |-> base, ext |-> ""],
                                                   loc, clock)])
           ELSE /\ UNCHANGED disk
                /\ SetJob(i, [j EXCEPT !.st = "done", !.out = out,
                                       !.ret = IF out = "exc" THEN "raised"
                                               ELSE "failure"])
    /\ mainpc' = IF pipeline = "cli_single" /\ out # "ok" THEN "done" ELSE mainpc
    /\ UNCHANGED << History, pipeline, opts, results, progress_queue,
                    active_downloads, barVars, clock, runsLeft,
                    entriesLeft, samplesLeft >>
    /\ UNCHANGED selVars
    /\ UNCHANGED pbVars
    /\ UNCHANGED << linkVars, sumVars, apiVars >>

\* downloadYoutubeVideo after a successful transfer: the History write on a
\* connection of its own, then the description file if there is none.
\* execute and commit are one transaction of the thread's own connection,
\* which the database serialises with those of the other threads.
downloadYoutubeVideo_record(i) ==
    /\ pipeline \in CliPipelines
    /\ i \in 1..Len(jobs)
    /\ jobs[i].st = "returned"
    /\ LET j == jobs[i]
           kind == QueryKind(j.before)
       IN  IF ExecRaises(History, kind, j.row)
           THEN /\ UNCHANGED << History, disk >>
                /\ SetJob(i, [j EXCEPT !.st = "done", !.ret = "raised"])
           ELSE /\ History' = Execute(History, kind, j.row)
                /\ disk' = IF Exists(disk, j.row.location, j.row.filename.base, "txt")
                           THEN disk
                           ELSE WriteFile(disk, j.row.location, j.row.filename.base,
                                          "txt", clock)
                /\ SetJob(i, [j EXCEPT !.st = "done", !.ret = "query", !.wrote = TRUE])
    /\ mainpc' = IF pipeline = "cli_single" THEN "done" ELSE mainpc
    /\ UNCHANGED << pipeline, opts, results, progress_queue, active_downloads,
                    barVars, clock, runsLeft, entriesLeft, samplesLeft >>
    /\ UNCHANGED selVars
    /\ UNCHANGED pbVars
    /\ UNCHANGED << linkVars, sumVars, apiVars >>

----------------------------------------------------------------------------
(* The command-line batch (main.py, choice 2): downloadMultipleYoutubeVideos *)
(* runs the links over a worker pool and downloadFromYoutube, with           *)
(* ProgressBar.progressBarHook as the progress hook of every job.            *)

\* downloadHelper.isFilePresent: a glob of the recorded name without its
\* extension, followed by anything, in the recorded directory; when nothing
\* matches, the operator is asked and "no" is answered as if it were present.
GlobFound(d, row) ==
    \E f \in d : f.loc = row.location /\ f.base = row.filename.base

isFilePresent(d, row, answer) == GlobFound(d, row) \/ ~answer

\* The start of a run, in a process of its own: the class attributes of
\* ProgressBar are as the class body leaves them, but for the flag.
downloadMultipleYoutubeVideos(write_desc, enable) ==
    /\ BeginRun("cli_multi", "loop", Opts(FALSE, write_desc, "downloads", None))
    /\ jobs' = << >>
    /\ downloads_dict' = << >>
    /\ enable_progress_bar' = enable
    /\ UNCHANGED << entriesLeft, History, disk, results, progress_queue,
                    active_downloads >>
    /\ UNCHANGED selVars
    /\ UNCHANGED pbVars
    /\ UNCHANGED << linkVars, sumVars, apiVars >>

\* One link: the id, the History check, the metadata, and the submit.
downloadMultipleYoutubeVideos_link(url, answer, meta) ==
    /\ pipeline = "cli_multi"
    /\ mainpc = "loop"
    /\ entriesLeft > 0
    /\ entriesLeft' = entriesLeft - 1
    /\ LET id == idExtractor(url)
           idx == Len(jobs) + 1
           rows == Select(History, id)
           found == rows # {} /\ GlobFound(disk, TheRow(rows))
           skip == rows # {} /\ isFilePresent(disk, TheRow(rows), answer)
           job == NewJob(id, idx, rows # {}, "queued", "")
       IN  jobs' = Append(jobs,
                IF id = None THEN NewJob(id, idx, FALSE, "skipped", "invalid")
                ELSE IF skip /\ found
                THEN [job EXCEPT !.st = "skipped", !.why = "already"]
                ELSE IF skip
                THEN [job EXCEPT !.st = "skipped", !.why = "refused", !.prompted = TRUE]
                ELSE IF meta # "ok"
                THEN [job EXCEPT !.st = "skipped", !.why = "unresolved",
                                 !.prompted = rows # {}]
                ELSE [job EXCEPT !.prompted = rows # {}])
    /\ UNCHANGED << History, disk, pipeline, mainpc, opts, results, progress_queue,
                    active_downloads, barVars, clock, runsLeft, samplesLeft >>
    /\ UNCHANGED selVars
    /\ UNCHANGED pbVars
    /\ UNCHANGED << linkVars, sumVars, apiVars >>

\* A worker of the pool takes the oldest submitted job.
downloadMultipleYoutubeVideos_worker(i) ==
    /\ pipeline = "cli_multi"
    /\ i \in 1..Len(jobs)
    /\ jobs[i].st = "queued"
    /\ \A k \in 1..(i - 1) : jobs[k].st # "queued"
    /\ Cardinality(Running) < max_workers
    /\ SetJob(i, [jobs[i] EXCEPT !.st = "running"])
    /\ UNCHANGED << History, disk, pipeline, mainpc, opts, results, progress_queue,
                    active_downloads, barVars, clock, runsLeft, entriesLeft,
                    samplesLeft >>
    /\ UNCHANGED selVars
    /\ UNCHANGED pbVars
    /\ UNCHANGED << linkVars, sumVars, apiVars >>

\* What the run does with the value downloadFromYoutube returned: the History
\* write of a (query, params) pair, the failed list otherwise.
downloadMultipleYoutubeVideos_result(i) ==
    /\ pipeline = "cli_multi"
    /\ i \in 1..Len(jobs)
    /\ jobs[i].st = "returned"
    /\ LET j == jobs[i]
           kind == QueryKind(j.before)
       IN  IF j.ret = "query" /\ ~ExecRaises(History, kind, j.row)
           THEN /\ History' = Execute(History, kind, j.row)
                /\ SetJob(i, [j EXCEPT !.st = "done", !.wrote = TRUE])
           ELSE /\ UNCHANGED History
                /\ SetJob(i, [j EXCEPT !.st = "done", !.reported = TRUE])
    /\ UNCHANGED << disk, pipeline, mainpc, opts, results, progress_queue,
                    active_downloads, barVars, clock, runsLeft, entriesLeft,
                    samplesLeft >>
    /\ UNCHANGED selVars
    /\ UNCHANGED pbVars
    /\ UNCHANGED << linkVars, sumVars, apiVars >>

\* The links are exhausted; the run returns once the pool has drained.
downloadMultipleYoutubeVideos_return ==
    /\ pipeline = "cli_multi"
    /\ \/ /\ mainpc = "loop"
          /\ mainpc' = "wait"
       \/ /\ mainpc = "wait"
          /\ \A i \in 1..Len(jobs) : Terminal(jobs[i])
          /\ mainpc' = "done"
    /\ UNCHANGED << History, disk, pipeline, opts, jobs, results, progress_queue,
                    active_downloads, barVars, clock, runsLeft, entriesLeft,
                    samplesLeft >>
    /\ UNCHANGED selVars
    /\ UNCHANGED pbVars
    /\ UNCHANGED << linkVars, sumVars, apiVars >>

\* ProgressBar.progressBarHook, called by the downloader from inside the fetch
\* of job i with a sample of the given status.  due: the throttle interval has
\* passed since the last rendering.
progressBarHook(i, status, due) ==
    /\ pipeline = "cli_multi"
    /\ i \in Running
    /\ jobs[i].sample # "error"
    /\ samplesLeft > 0
    /\ samplesLeft' = samplesLeft - 1
    /\ LET d == BarUpdate(downloads_dict, jobs[i].id, status)
       IN  downloads_dict' = IF enable_progress_bar /\ due
                             THEN displayProgressBars(d)
                             ELSE d
    /\ SetJob(i, [jobs[i] EXCEPT !.sample = status])
    /\ UNCHANGED << History, disk, pipeline, mainpc, opts, results, progress_queue,
                    active_downloads, enable_progress_bar, clock, runsLeft,
                    entriesLeft >>
    /\ UNCHANGED selVars
    /\ UNCHANGED pbVars
    /\ UNCHANGED << linkVars, sumVars, apiVars >>

----------------------------------------------------------------------------
(* streamsHelper: grouping the formats of an item and selecting streams *)

\* A raw format as the source lists it.  A key that the entry does not have
\* is Absent, a key whose value is null is Null: dict.get gives None for both,
\* the test "key in dict" tells them apart.  The sizes are numbers of bytes;
\* SizeAbsent and SizeNull stand for Absent and Null in the two size fields.
Absent == "absent"
Null == "null"
SizeAbsent == -1
SizeNull == -2

Stream(format_id, format_note, ext, filesize, filesize_approx, resolution, vcodec, acodec) ==
    [format_id |-> format_id, format_note |-> format_note, ext |-> ext,
     filesize |-> filesize, filesize_approx |-> filesize_approx,
     resolution |-> resolution, vcodec |-> vcodec, acodec |-> acodec,
     type |-> Absent]

\* stream.get(key): None for a missing key and for a null value.
Get(v) == IF v = Absent THEN Null ELSE v
GetSize(v) == IF v = SizeAbsent THEN SizeNull ELSE v

\* Truth value of a size: None and 0 are false.
Truthy(v) == v # SizeNull /\ v # 0

\* format_note[:4].upper() for the notes of the model.
Upper4(note) ==
    CASE note = "DASH video" -> "DASH"
      [] note = "dash audio" -> "DASH"
      [] note = "720p" -> "720P"
      [] note = "medium" -> "MEDI"
      [] note = "Default" -> "DEFA"
      [] OTHER -> note

\* The filter of groupYoutubeStreams: the entry is dropped.
Dropped(stream) ==
    \/ Get(stream.format_note) \in {Null, "Default"}
    \/ Upper4(Get(stream.format_note)) = "DASH"
    \/ stream.ext \in {"mhtml", "3gp"}
    \/ ~(Truthy(GetSize(stream.filesize)) \/ Truthy(GetSize(stream.filesize_approx)))

\* The category an entry that is kept is filed under.
CategoryOf(stream) ==
    IF stream.resolution = "audio only" THEN << "audio", stream.ext >>
    ELSE IF stream.vcodec # "none" /\ stream.acodec = "none"
    THEN << "video", stream.ext >>
    ELSE << "audio-video", stream.ext >>

HasKey(g, key) == \E k \in 1..Len(g) : g[k].key = key

\* The grouping that puts the latest stream and the latest category first.
AddToGroupFront(g, key, stream) ==
    IF HasKey(g, key)
    THEN [k \in 1..Len(g) |->
             IF g[k].key = key THEN [g[k] EXCEPT !.streams = << stream >> \o @]
             ELSE g[k]]
    ELSE << [key |-> key, streams |-> << stream >>] >> \o g

\* groupedStreams[key].append(stream), or groupedStreams[key] = [stream].
AddToGroup(g, key, stream) ==
    IF HasKey(g, key)
    THEN [k \in 1..Len(g) |->
             IF g[k].key = key THEN [g[k] EXCEPT !.streams = Append(@, stream)]
             ELSE g[k]]
    ELSE Append(g, [key |-> key, streams |-> << stream >>])

RECURSIVE GroupFrom(_, _, _)
GroupFrom(streams, n, g) ==
    IF n > Len(streams) THEN g
    ELSE IF Dropped(streams[n]) THEN GroupFrom(streams, n + 1, g)
    ELSE GroupFrom(streams, n + 1, AddToGroup(g, CategoryOf(streams[n]), streams[n]))

\* The dict of category -> list, in the order the categories first appear.
groupYoutubeStreams(streams) == GroupFrom(streams, 1, << >>)

\* printStreamsTable: the number of streams in each category.
printStreamsTable(g) == [k \in 1..Len(g) |-> Len(g[k].streams)]

\* The Size column reads stream["filesize"] or stream["filesize_approx"]: a
\* key that is not there raises.
TableRaises(g) ==
    \E k \in 1..Len(g) : \E n \in 1..Len(g[k].streams) :
        LET stream == g[k].streams[n]
        IN  \/ stream.filesize = SizeAbsent
            \/ ~Truthy(stream.filesize) /\ stream.filesize_approx = SizeAbsent

\* stream.get(codec, "none") or "none"
Codec(v) == IF v \in {Absent, Null, ""} THEN "none" ELSE v

findStreamType(stream) ==
    IF Codec(stream.vcodec) # "none" /\ Codec(stream.acodec) # "none" THEN "audio-video"
    ELSE IF Codec(stream.vcodec) # "none" THEN "video"
    ELSE IF Codec(stream.acodec) # "none" THEN "audio"
    ELSE "none"

\* int(token): the tokens the operator types, and the number a numeral is.
Numerals == {"0", "1", "2", "3", "4"}
Tokens == Numerals \cup {"", "x"}

IntOf(token) ==
    CASE token = "0" -> 0
      [] token = "1" -> 1
      [] token = "2" -> 2
      [] token = "3" -> 3
      [] token = "4" -> 4

\* input().strip().split(" "): at least one token; the line is stripped, so
\* of several tokens the first and the last are not empty.
Lines ==
    {ch \in UNION {[1..n -> Tokens] : n \in 1..MaxTokens} :
        Len(ch) > 1 => (ch[1] # "" /\ ch[Len(ch)] # "")}

\* stream["type"] = findStreamType(stream)
Typed(stream) == [stream EXCEPT !.type = findStreamType(stream)]

\* len(choices) > 4, and the test with the bound left out.
TooManyNever(ch) == FALSE
TooMany(ch) == Len(ch) > 4

\* len(choices) < 2
TooFew(ch) == Len(ch) < 2

\* The warning for a pair of types, "" if the pair is accepted; and the
\* check that looks for two streams of one type only.
PairWarningSameOnly(t1, t2) == IF t1 = t2 THEN "same type" ELSE ""
PairWarning(t1, t2) ==
    IF "audio-video" \in {t1, t2} THEN "audio-video pair"
    ELSE IF t1 = t2 THEN "same type"
    ELSE ""

\* One pass of the body of the loop of selectStreams over the line ch.
\* kind "return": the function returns sel; kind "warn": a warning is
\* printed and the loop goes on.  An int() of a token that is no numeral and
\* an index past the end of ch raise; the except clause makes it a warning.
selectStreamsPass(ch, lens, g) ==
    LET Ret(sel) == [kind |-> "return", sel |-> sel, warning |-> ""]
        Warn(w) == [kind |-> "warn", sel |-> << >>, warning |-> w]
        num(n) == n <= Len(ch) /\ ch[n] \in Numerals
        At(c, i) == Typed(g[IntOf(ch[c])].streams[IntOf(ch[i])])
    IN  IF Len(ch) = 1 /\ ch[1] = "" THEN Ret(<< >>)
        ELSE IF TooMany(ch) THEN Warn("at most 4")
        ELSE IF TooFew(ch) THEN Warn("not enough")
        ELSE IF ~num(1) THEN Warn("invalid input")
        ELSE IF ~(0 < IntOf(ch[1]) /\ IntOf(ch[1]) <= Len(lens))
        THEN Warn("first category")
        ELSE IF ~num(2) THEN Warn("invalid input")
        ELSE IF ~(0 < IntOf(ch[2]) /\ IntOf(ch[2]) <= lens[IntOf(ch[1])])
        THEN Warn("first format")
        ELSE IF Len(ch) = 2 THEN Ret(<< At(1, 2) >>)
        ELSE IF ~num(3) THEN Warn("invalid input")
        ELSE IF ~(0 < IntOf(ch[3]) /\ IntOf(ch[3]) <= Len(lens))
        THEN Warn("second category")
        ELSE IF ~num(4) THEN Warn("invalid input")
        ELSE IF ~(0 < IntOf(ch[4]) /\ IntOf(ch[4]) <= lens[IntOf(ch[3])])
        THEN Warn("second format")
        ELSE IF PairWarning(At(1, 2).type, At(3, 4).type) # ""
        THEN Warn(PairWarning(At(1, 2).type, At(3, 4).type))
        ELSE Ret(<< At(1, 2), At(3, 4) >>)

\* stream["type"] = ... is an assignment to the entry of groupedStreams: the
\* streams a pass has resolved carry their type from then on.
MarkTyped(g, ch, lens) ==
    LET ok(c, i) ==
            /\ \A n \in 1..i : ch[n] \in Numerals
            /\ 0 < IntOf(ch[c]) /\ IntOf(ch[c]) <= Len(lens)
            /\ 0 < IntOf(ch[i]) /\ IntOf(ch[i]) <= lens[IntOf(ch[c])]
        hit(k, n) ==
            \/ /\ Len(ch) = 2 /\ ok(1, 2)
               /\ k = IntOf(ch[1]) /\ n = IntOf(ch[2])
            \/ /\ Len(ch) = 4 /\ ok(1, 2) /\ ok(3, 4)
               /\ \/ k = IntOf(ch[1]) /\ n = IntOf(ch[2])
                  \/ k = IntOf(ch[3]) /\ n = IntOf(ch[4])
    IN  [k \in 1..Len(g) |->
            [g[k] EXCEPT !.streams =
                [n \in 1..Len(g[k].streams) |->
                    IF hit(k, n) THEN Typed(g[k].streams[n]) ELSE g[k].streams[n]]]]

\* stream["filesize"] if "filesize" in stream else stream["filesize_approx"]
SizeOf(stream) ==
    IF stream.filesize # SizeAbsent THEN stream.filesize ELSE stream.filesize_approx

\* totalSize += SizeOf(stream) raises for a size that is no number.
RECURSIVE SumSizes(_, _)
SumSizes(sel, n) ==
    IF n > Len(sel) THEN 0
    ELSE IF SizeOf(sel[n]) \in {SizeNull, SizeAbsent} THEN SizeNull
    ELSE IF SumSizes(sel, n + 1) = SizeNull THEN SizeNull
    ELSE SizeOf(sel[n]) + SumSizes(sel, n + 1)

\* The last stream of a type gives the id of that type.
RECURSIVE LastId(_, _, _)
LastId(sel, n, types) ==
    IF n = 0 THEN ""
    ELSE IF sel[n].type \in types THEN sel[n].format_id
    ELSE LastId(sel, n - 1, types)

\* f"{videoFromatId}+{audioFromatId}", or the one id there is; and the spec
\* with the ids the other way round.
FormatSpecAudioFirst(video, audio) ==
    IF audio # "" /\ video # "" THEN << audio, "+", video >>
    ELSE IF video # "" THEN << video >>
    ELSE IF audio # "" THEN << audio >>
    ELSE << >>

FormatSpec(video, audio) ==
    IF audio # "" /\ video # "" THEN << video, "+", audio >>
    ELSE IF video # "" THEN << video >>
    ELSE IF audio # "" THEN << audio >>
    ELSE << >>

NoOutput == [format |-> << >>, size |-> 0, fileExtension |-> ""]

\* extractFormatIdsFromSelectedStreams and the fileExtension of
\* parseAndSelectStreams.
extractFormatIdsFromSelectedStreams(sel) ==
    [format |-> FormatSpec(LastId(sel, Len(sel), {"video", "audio-video"}),
                           LastId(sel, Len(sel), {"audio"})),
     size |-> SumSizes(sel, 1),
     fileExtension |-> IF Len(sel) = 2 THEN "mp4" ELSE sel[1].ext]

\* parseAndSelectStreams after extract_info: the formats are grouped and the
\* table is printed.
parseAndSelectStreams ==
    /\ selpc = "start"
    /\ groupedStreams' = groupYoutubeStreams(formats)
    /\ selpc' = IF TableRaises(groupedStreams') THEN "raised" ELSE "prompt"
    /\ UNCHANGED << formats, choices, selected, warnings, output >>
    /\ UNCHANGED << History, disk, pipeline, mainpc, opts, jobs, results,
                    progress_queue, active_downloads, barVars, clock, runsLeft,
                    entriesLeft, samplesLeft >>
    /\ UNCHANGED pbVars
    /\ UNCHANGED << linkVars, sumVars, apiVars >>

\* selectStreams: the prompt, and the line the operator answers with.
selectStreams_input ==
    /\ selpc = "prompt"
    /\ \E ch \in Lines : choices' = ch
    /\ selpc' = "read"
    /\ UNCHANGED << formats, groupedStreams, selected, warnings, output >>
    /\ UNCHANGED << History, disk, pipeline, mainpc, opts, jobs, results,
                    progress_queue, active_downloads, barVars, clock, runsLeft,
                    entriesLeft, samplesLeft >>
    /\ UNCHANGED pbVars
    /\ UNCHANGED << linkVars, sumVars, apiVars >>

\* The loop that a rejected line ends: the warning, and no further prompt.
selectStreamsNoRetry ==
    /\ selpc = "read"
    /\ LET lens == printStreamsTable(groupedStreams)
           pass == selectStreamsPass(choices, lens, groupedStreams)
       IN  /\ groupedStreams' = MarkTyped(groupedStreams, choices, lens)
           /\ IF pass.kind = "return"
              THEN /\ selected' = pass.sel
                   /\ selpc' = IF pass.sel = << >> THEN "skipped" ELSE "selected"
                   /\ UNCHANGED << warnings, choices >>
              ELSE /\ warnings < MaxWarnings
                   /\ warnings' = warnings + 1
                   /\ selpc' = "skipped"
                   /\ UNCHANGED << selected, choices >>
    /\ UNCHANGED << formats, output >>
    /\ UNCHANGED << History, disk, pipeline, mainpc, opts, jobs, results,
                    progress_queue, active_downloads, barVars, clock, runsLeft,
                    entriesLeft, samplesLeft >>
    /\ UNCHANGED pbVars
    /\ UNCHANGED << linkVars, sumVars, apiVars >>

\* selectStreams: the rest of the body of the loop, over the line read.  A
\* rejected line ends with a warning and the next prompt.
selectStreams ==
    /\ selpc = "read"
    /\ LET lens == printStreamsTable(groupedStreams)
           pass == selectStreamsPass(choices, lens, groupedStreams)
       IN  /\ groupedStreams' = MarkTyped(groupedStreams, choices, lens)
           /\ IF pass.kind = "return"
              THEN /\ selected' = pass.sel
                   /\ selpc' = IF pass.sel = << >> THEN "skipped" ELSE "selected"
                   /\ UNCHANGED << warnings, choices >>
              ELSE /\ warnings < MaxWarnings
                   /\ warnings' = warnings + 1
                   /\ choices' = << >>
                   /\ selpc' = "prompt"
                   /\ UNCHANGED selected
    /\ UNCHANGED << formats, output >>
    /\ UNCHANGED << History, disk, pipeline, mainpc, opts, jobs, results,
                    progress_queue, active_downloads, barVars, clock, runsLeft,
                    entriesLeft, samplesLeft >>
    /\ UNCHANGED pbVars
    /\ UNCHANGED << linkVars, sumVars, apiVars >>

\* parseAndSelectStreams after a selection: the format spec, the size and
\* the extension; a size that is no number makes the sum raise.
parseAndSelectStreams_output ==
    /\ selpc = "selected"
    /\ LET out == extractFormatIdsFromSelectedStreams(selected)
       IN  IF out.size = SizeNull
           THEN /\ selpc' = "raised"
                /\ UNCHANGED output
           ELSE /\ selpc' = "done"
                /\ output' = out
    /\ UNCHANGED << formats, groupedStreams, choices, selected, warnings >>
    /\ UNCHANGED << History, disk, pipeline, mainpc, opts, jobs, results,
                    progress_queue, active_downloads, barVars, clock, runsLeft,
                    entriesLeft, samplesLeft >>
    /\ UNCHANGED pbVars
    /\ UNCHANGED << linkVars, sumVars, apiVars >>

----------------------------------------------------------------------------
(* ProgressBar: the hook, the throttle and the rendering, step by step *)

\* ProgressBar.throttle_timespan = 0.2 seconds, in tenths of a second.
throttle_timespan == 2

\* time.time() when the first sample arrives: the class sets
\* last_execution_time to 0, and the clock is far past the first interval.
StartTime == throttle_timespan + 1

\* The downloading threads, and the id of the item each of them fetches.
HookThreads == 1..MaxHookThreads
HookIds == << "a", "b", "c" >>

\* The eta of a sample: a number of seconds, or None (the key may be missing).
EtaNone == -2
EtaSamples == {EtaNone, -1, 0, 1, 59, 60, 61, 3599, 3600, 3661}

\* progress.get('eta', -1) or -1, and download_info.get("eta_seconds", -1) or -1
OrMinusOne(v) == IF v = EtaNone \/ v = 0 THEN -1 ELSE v

\* The text _formatEta returns: "???", "<lo>s", "<hi>m <lo>s" or "<hi>h <lo>m".
EtaText(form, hi, lo) == [form |-> form, hi |-> hi, lo |-> lo]

formatEta(seconds) ==
    IF seconds = EtaNone \/ seconds < 0 THEN EtaText("???", 0, 0)
    ELSE IF seconds < 60 THEN EtaText("s", 0, seconds)
    ELSE IF seconds < 3600 THEN EtaText("m s", seconds \div 60, seconds % 60)
    ELSE EtaText("h m", seconds \div 3600, (seconds % 3600) \div 60)

\* progressBarHook, the update of the table by one sample: "finished" marks
\* the entry if there is one, "downloading" creates the entry if need be and
\* overwrites its fields, any other status ("error") leaves the table alone.
HookUpdate(d, id, status, eta) ==
    IF status = "finished" THEN DictSetStatus(d, id, "finished")
    ELSE IF status = "downloading"
    THEN IF DictHas(d, id)
         THEN [k \in 1..Len(d) |->
                  IF d[k].id = id
                  THEN [d[k] EXCEPT !.status = "downloading",
                                    !.eta_seconds = OrMinusOne(eta)]
                  ELSE d[k]]
         ELSE Append(d, [id |-> id, status |-> "downloading",
                         eta_seconds |-> OrMinusOne(eta)])
    ELSE d

\* current_time - cls.last_execution_time >= cls.throttle_timespan, and the
\* test that lets every call through.
DueAlways(current_time, last) == TRUE
Due(current_time, last) == current_time - last >= throttle_timespan

\* _printProgressBar: one text per entry of the copy, with the ETA of
\* getProgressBarText.
BarTexts(copy) ==
    [k \in 1..Len(copy) |->
        [id |-> copy[k].id, status |-> copy[k].status,
         eta |-> formatEta(OrMinusOne(copy[k].eta_seconds))]]

\* console.print("\n".join(texts)): a row for each text, and the one empty
\* row that printing the empty string takes.
PrintedRows(copy) == IF Len(copy) = 0 THEN 1 ELSE Len(copy)

\* _moveCursorUp: "\033[F" once for each finished and for each working entry
\* of the copy.
RewoundRows(copy) ==
    Cardinality({k \in 1..Len(copy) : copy[k].status = "finished"})
        + (Len(copy) - Cardinality({k \in 1..Len(copy) : copy[k].status = "finished"}))

\* fishied_ids of _moveCursorUp.
FinishedIds(copy) == {copy[k].id : k \in 1..Len(copy) \cap {k \in 1..Len(copy) : copy[k].status = "finished"}}

\* for id in fishied_ids: del cls.downloads_dict[id]; and the pass that
\* deletes nothing.
DeleteIdsNone(d, ids) == d
DeleteIds(d, ids) == SelectSeq(d, LAMBDA e : e.id \notin ids)

\* A thread outside the hook.  status, eta: those of the sample it delivered
\* last.  raised: a call of the hook by the thread has ended with an
\* exception, which ends its download.
HookIdle ==
    [pc |-> "idle", status |-> "", eta |-> EtaNone, current_time |-> 0,
     copy |-> << >>, raised |-> FALSE]

SetHook(t, h) == hooks' = [hooks EXCEPT ![t] = h]

\* What the steps of ProgressBar leave alone.
PbFrame ==
    /\ UNCHANGED << History, disk, pipeline, mainpc, opts, jobs, results,
                    progress_queue, active_downloads, clock, runsLeft, entriesLeft >>
    /\ UNCHANGED selVars
    /\ UNCHANGED << linkVars, sumVars, apiVars >>

\* progressBarHook, lines 54-85: thread t delivers a sample; the table is
\* updated, with no lock held, and the call returns if the bar is off.
progressBarHook_update(t, status, eta) ==
    /\ hooks[t].pc = "idle"
    /\ hooks[t].status # "error"
    /\ samplesLeft > 0
    /\ samplesLeft' = samplesLeft - 1
    /\ downloads_dict' = HookUpdate(downloads_dict, HookIds[t], status, eta)
    /\ SetHook(t, [hooks[t] EXCEPT !.status = status, !.eta = eta,
                                   !.pc = IF enable_progress_bar THEN "lock" ELSE "idle"])
    /\ UNCHANGED << enable_progress_bar, now, last_execution_time, throttle_lock,
                    renders, cursor >>
    /\ PbFrame

\* with cls.throttle_lock: the thread gets the lock, reads the time and
\* either goes on to displayProgressBars or leaves the lock at once.
progressBarHook_throttle(t) ==
    /\ hooks[t].pc = "lock"
    /\ throttle_lock = 0
    /\ IF Due(now, last_execution_time)
       THEN /\ throttle_lock' = t
            /\ SetHook(t, [hooks[t] EXCEPT !.pc = "display", !.current_time = now])
       ELSE /\ SetHook(t, [hooks[t] EXCEPT !.pc = "idle"])
            /\ UNCHANGED throttle_lock
    /\ UNCHANGED << barVars, samplesLeft, now, last_execution_time, renders, cursor >>
    /\ PbFrame

\* displayProgressBars: the copy of the table, and _printProgressBar.
displayProgressBars_print(t) ==
    /\ hooks[t].pc = "display"
    /\ SetHook(t, [hooks[t] EXCEPT !.pc = "rewind", !.copy = downloads_dict])
    /\ renders' = Append(renders, [stamp |-> hooks[t].current_time, at |-> now,
                                   by |-> t, texts |-> BarTexts(downloads_dict)])
    /\ cursor' = cursor + PrintedRows(downloads_dict)
    /\ UNCHANGED << barVars, samplesLeft, now, last_execution_time, throttle_lock >>
    /\ PbFrame

\* _moveCursorUp, and the end of the with block.  The del of an id that is
\* no longer in the table raises KeyError out of the hook: the ids before it
\* in the set are deleted, the lock is released, the time is not recorded.
moveCursorUp(t) ==
    /\ hooks[t].pc = "rewind"
    /\ cursor' = cursor - RewoundRows(hooks[t].copy)
    /\ throttle_lock' = 0
    /\ LET ids == FinishedIds(hooks[t].copy)
           there == {id \in ids : DictHas(downloads_dict, id)}
       IN  IF there = ids
           THEN /\ downloads_dict' = DeleteIds(downloads_dict, ids)
                /\ last_execution_time' = hooks[t].current_time
                /\ SetHook(t, [hooks[t] EXCEPT !.pc = "idle", !.copy = << >>])
           ELSE /\ \E done \in SUBSET there :
                      downloads_dict' = DeleteIds(downloads_dict, done)
                /\ UNCHANGED last_execution_time
                /\ SetHook(t, [hooks[t] EXCEPT !.pc = "raised", !.copy = << >>,
                                               !.raised = TRUE])
    /\ UNCHANGED << enable_progress_bar, samplesLeft, now, renders >>
    /\ PbFrame

\* downloadFromYoutube, lines 269-280: the download of thread t ended with a
\* status code or an exception; the entry of its item is popped.
downloadFromYoutube_pop(t) ==
    /\ hooks[t].pc \in {"idle", "raised"}
    /\ downloads_dict' = FailureCleanup(downloads_dict, HookIds[t])
    /\ SetHook(t, [hooks[t] EXCEPT !.pc = "failed"])
    /\ UNCHANGED << enable_progress_bar, samplesLeft, now, last_execution_time,
                    throttle_lock, renders, cursor >>
    /\ PbFrame

\* Time passes.
Tick ==
    /\ now < StartTime + MaxTicks
    /\ now' = now + 1
    /\ UNCHANGED << barVars, samplesLeft, last_execution_time, throttle_lock,
                    hooks, renders, cursor >>
    /\ PbFrame

----------------------------------------------------------------------------
(* The operator's file manager *)

\* Between runs a file of the downloads directory is deleted or moved away:
\* the case the isfile / glob checks of the pipelines exist for.
RemoveFile(f) ==
    /\ Idle
    /\ runsLeft > 0
    /\ f \in disk
    /\ f.ext # "txt"
    /\ disk' = disk \ {f}
    /\ UNCHANGED << History, pipeline, mainpc, opts, jobs, results, progress_queue,
                    active_downloads, barVars, clock, runsLeft,
                    entriesLeft, samplesLeft >>
    /\ UNCHANGED selVars
    /\ UNCHANGED pbVars
    /\ UNCHANGED << linkVars, sumVars, apiVars >>

\* Between runs a description file is left empty: open(path, "w") truncates
\* before the write, so an interrupted write leaves a file of size 0, the case
\* the getsize check of downloadFromYoutube exists for.
EmptyDescription(f) ==
    /\ Idle
    /\ runsLeft > 0
    /\ f \in disk
    /\ f.ext = "txt"
    /\ f.data # 0
    /\ disk' = (disk \ {f}) \cup {[f EXCEPT !.data = 0]}
    /\ UNCHANGED << History, pipeline, mainpc, opts, jobs, results, progress_queue,
                    active_downloads, barVars, clock, runsLeft,
                    entriesLeft, samplesLeft >>
    /\ UNCHANGED selVars
    /\ UNCHANGED pbVars
    /\ UNCHANGED << linkVars, sumVars, apiVars >>

----------------------------------------------------------------------------
(* guiService.get_progress_updates: the event stream the browser holds open *)

\* The consumer takes the queued events, oldest first; between two requests of
\* the operator it has caught up with the queue.
get_progress_updates ==
    /\ Idle
    /\ progress_queue # << >>
    /\ progress_queue' = << >>
    /\ UNCHANGED << History, disk, pipeline, mainpc, opts, jobs, results,
                    active_downloads, barVars, clock, runsLeft,
                    entriesLeft, samplesLeft >>
    /\ UNCHANGED selVars
    /\ UNCHANGED pbVars
    /\ UNCHANGED << linkVars, sumVars, apiVars >>

----------------------------------------------------------------------------
(* The batch link file, video-links.txt, and the batch form of the page:     *)
(* /api/batch-links reads and writes the file, /api/download-batch starts a  *)
(* run over the links it is sent.                                            *)

\* A line of the file that is empty once stripped.
BlankLine == [form |-> "blank", id |-> None]

\* get_batch_links: the lines of the file, without the empty ones; no links
\* when there is no file.
get_batch_links(content) == SelectSeq(content, LAMBDA l : l # BlankLine)

\* save_batch_links: the file is overwritten with the text of the request.
\* The operator edits the list while no run is under way.
save_batch_links(content) ==
    /\ Idle
    /\ video_links' = content
    /\ UNCHANGED << History, disk, pipeline, mainpc, opts, jobs, results,
                    progress_queue, active_downloads, barVars, clock, runsLeft,
                    entriesLeft, samplesLeft >>
    /\ UNCHANGED selVars
    /\ UNCHANGED pbVars
    /\ UNCHANGED << sumVars, apiVars >>

\* gui.download_batch with the links of the file: without links the request
\* is refused, otherwise start_batch_download starts the run.
download_batch(audio_only, write_desc) ==
    /\ get_batch_links(video_links) # << >>
    /\ start_batch_download(audio_only, write_desc)

\* batch_download_task, for url in links: the next link of the run.
batch_download_task_next(meta) ==
    LET links == get_batch_links(video_links)
    IN  /\ Len(jobs) < Len(links)
        /\ batch_download_task(links[Len(jobs) + 1], meta)

\* batch_download_task, the end of the loop over the links.
batch_download_task_end ==
    /\ pipeline = "gui_batch"
    /\ Len(jobs) = Len(get_batch_links(video_links))
    /\ ExecutorShutdown

----------------------------------------------------------------------------
(* Calls that are looked at on their own, and the consumers of the stream *)

NoCall == [fn |-> "none"]
NoRet == [kind |-> "none"]

\* /api/progress: one generator over progress_queue per connection.
Consumers == {1, 2}

\* No call is under way and nobody has read from the stream.
ApiIdle ==
    /\ call = NoCall
    /\ retval = NoRet
    /\ delivered = [c \in Consumers |-> << >>]

\* The caller has taken the value the function returned.
Return ==
    /\ call # NoCall
    /\ call' = NoCall
    /\ retval' = NoRet
    /\ UNCHANGED << History, disk, pipeline, mainpc, opts, jobs, results,
                    progress_queue, active_downloads, barVars, clock, runsLeft,
                    entriesLeft, samplesLeft, delivered >>
    /\ UNCHANGED selVars
    /\ UNCHANGED pbVars
    /\ UNCHANGED << linkVars, sumVars >>

\* What the other calls leave alone.
CallFrame ==
    /\ UNCHANGED << History, disk, pipeline, mainpc, opts, jobs, results,
                    progress_queue, active_downloads, barVars, clock, runsLeft,
                    entriesLeft, samplesLeft, delivered >>
    /\ UNCHANGED selVars
    /\ UNCHANGED pbVars
    /\ UNCHANGED << linkVars, sumVars >>

\* A cursor over the rows a SELECT by video_id matched: at most one, the
\* column being the primary key.
Cursor(rows) == IF rows = {} THEN << >> ELSE << TheRow(rows) >>

\* cursor.fetchone(): the next row or None, and the cursor after it.
Fetchone(cur) ==
    [found |-> cur # << >>, rest |-> IF cur = << >> THEN << >> ELSE Tail(cur)]

\* get_streams lines 133-137: result = c.fetchone() if c.execute(...) else
\* None, then result = c.fetchone() on the same cursor; a cursor is true.
Lookup(rows) == Fetchone(Fetchone(Cursor(rows)).rest).found

\* guiService.get_streams; meta is what extract_info gave.
get_streams(url, meta) ==
    /\ call = NoCall
    /\ call' = [fn |-> "get_streams", url |-> url]
    /\ retval' = IF idExtractor(url) = None \/ meta # "ok"
                 THEN [kind |-> "error"]
                 ELSE [kind |-> "streams", video_id |-> idExtractor(url),
                       already_downloaded |-> Lookup(Select(History, idExtractor(url)))]
    /\ CallFrame

\* progressBarHook lines 60-68, the byte counts of a downloading sample:
\* "or -1" on both, and the remaining bytes when the total is above 1.
HookBytes(downloaded_bytes, total_bytes) ==
    LET d == OrMinusOne(downloaded_bytes)
        t == OrMinusOne(total_bytes)
    IN  IF t > 1 THEN [total_bytes |-> t, remaining_bytes |-> t - d]
        ELSE [total_bytes |-> -1, remaining_bytes |-> -1]

\* round(n / d) for d # 0: to the nearest integer, a half to the even one.
Round(n, d) ==
    LET nn == IF d < 0 THEN 0 - n ELSE n
        dd == IF d < 0 THEN 0 - d ELSE d
        q == nn \div dd
        r == nn % dd
    IN  IF 2 * r < dd THEN q
        ELSE IF 2 * r > dd THEN q + 1
        ELSE IF q % 2 = 0 THEN q ELSE q + 1

\* getProgressBarText lines 133-143: the widths and the percentage (as the
\* fraction percent_num / percent_den) for a terminal of the given width.
getProgressBarText(filesize, bytes_remaining, columns) ==
    LET max_width == (columns * 35) \div 100
    IN  [kind |-> "text",
         bytes_remaining |-> bytes_remaining,
         max_width |-> max_width,
         fill_width |-> Round(max_width * (filesize - bytes_remaining), filesize),
         percent_num |-> (filesize - bytes_remaining) * 100,
         percent_den |-> filesize]

\* progressBarHook with a downloading sample: the entry it stores.
progressBarHook_bytes(downloaded_bytes, total_bytes) ==
    /\ call = NoCall
    /\ call' = [fn |-> "progressBarHook", downloaded_bytes |-> downloaded_bytes,
                total_bytes |-> total_bytes]
    /\ retval' = [kind |-> "entry"] @@ HookBytes(downloaded_bytes, total_bytes)
    /\ CallFrame

\* _printProgressBar lines 159-166: the entry is read with "or -1" on every
\* value and handed to getProgressBarText.
printProgressBar_bytes(columns) ==
    /\ call.fn = "progressBarHook"
    /\ retval.kind = "entry"
    /\ retval' = getProgressBarText(OrMinusOne(retval.total_bytes),
                                    OrMinusOne(retval.remaining_bytes), columns)
    /\ UNCHANGED call
    /\ UNCHANGED << History, disk, pipeline, mainpc, opts, jobs, results,
                    progress_queue, active_downloads, barVars, clock, runsLeft,
                    entriesLeft, samplesLeft, delivered >>
    /\ UNCHANGED selVars
    /\ UNCHANGED pbVars
    /\ UNCHANGED << linkVars, sumVars >>

\* streamsHelper.getPlaylistStartAndEnd: the tokens of a line, the integer
\* arguments as the tokens int() reads alike, and int(token).
RangeNumerals == {"-2", "-1", "0", "1", "2", "3", "4"}
RangeTokens == RangeNumerals \cup {"", "x"}

RangeInt(token) ==
    CASE token = "-2" -> -2
      [] token = "-1" -> -1
      [] token = "0" -> 0
      [] token = "1" -> 1
      [] token = "2" -> 2
      [] token = "3" -> 3
      [] token = "4" -> 4

RangeNumeral(n) == CHOOSE token \in RangeNumerals : RangeInt(token) = n

\* One pass of the while loop over startEnd: a returned pair, or a new prompt.
RangePass(startEnd, playlist_count) ==
    LET again == [kind |-> "prompt"]
        pair(a, b) == [kind |-> "pair", start |-> a, end |-> b]
    IN  IF Len(startEnd) = 1 /\ startEnd[1] = ""
        THEN pair(1, playlist_count)
        ELSE IF Len(startEnd) # 2
        THEN again
        ELSE IF startEnd[1] \notin RangeNumerals
        THEN again
        ELSE IF RangeInt(startEnd[1]) > playlist_count
        THEN again
        ELSE IF startEnd[2] \notin RangeNumerals
        THEN again
        ELSE IF RangeInt(startEnd[2]) > playlist_count
        THEN again
        ELSE IF RangeInt(startEnd[2]) = -1
        THEN pair(RangeInt(startEnd[1]), playlist_count)
        ELSE IF RangeInt(startEnd[1]) > RangeInt(startEnd[2])
        THEN again
        ELSE pair(RangeInt(startEnd[1]), RangeInt(startEnd[2]))

\* The call up to its first return or prompt (lines 196-202 and the first
\* pass of the loop when both arguments are given).
getPlaylistStartAndEnd(playlist_count, start_from, end_with) ==
    /\ call = NoCall
    /\ call' = [fn |-> "getPlaylistStartAndEnd", playlist_count |-> playlist_count,
                prompts |-> 0]
    /\ retval' = IF start_from = 0 \/ end_with = 0
                 THEN [kind |-> "prompt"]
                 ELSE IF start_from = -1 /\ end_with = -1
                 THEN [kind |-> "pair", start |-> 1, end |-> playlist_count]
                 ELSE RangePass(<< RangeNumeral(start_from), RangeNumeral(end_with) >>,
                                playlist_count)
    /\ CallFrame

\* startEnd = input().strip().split(" ") and the pass of the loop over it.
getPlaylistStartAndEnd_input(line) ==
    /\ call.fn = "getPlaylistStartAndEnd"
    /\ retval.kind = "prompt"
    /\ call.prompts < MaxPrompts
    /\ call' = [call EXCEPT !.prompts = @ + 1]
    /\ retval' = RangePass(line, call.playlist_count)
    /\ CallFrame

\* gui.progress_stream: every connection iterates a generator of its own
\* over get_progress_updates, and every generator calls progress_queue.get on
\* the one queue: consumer c takes the oldest event.
progress_stream(c) ==
    /\ progress_queue # << >>
    /\ progress_queue' = Tail(progress_queue)
    /\ delivered' = [delivered EXCEPT ![c] = Append(@, Head(progress_queue))]
    /\ UNCHANGED << History, disk, pipeline, mainpc, opts, jobs, results,
                    active_downloads, barVars, clock, runsLeft, entriesLeft,
                    samplesLeft, call, retval >>
    /\ UNCHANGED selVars
    /\ UNCHANGED pbVars
    /\ UNCHANGED << linkVars, sumVars >>

\* A call of downloadHelper.isFilePresent with the columns of a History row:
\* what it returns, and whether it asked the operator.
isFilePresent_call(row, answer) ==
    /\ Idle
    /\ call = NoCall
    /\ row \in History
    /\ call' = [fn |-> "isFilePresent", row |-> row]
    /\ retval' = [kind |-> "present", value |-> isFilePresent(disk, row, answer),
                  prompted |-> ~GlobFound(disk, row)]
    /\ CallFrame

----------------------------------------------------------------------------
(* The state machine *)

MainInit(runs, entries, samples) ==
    /\ History = {}
    /\ disk = {}
    /\ pipeline = "idle"
    /\ mainpc = "idle"
    /\ opts = NoOpts
    /\ jobs = << >>
    /\ results = {}
    /\ progress_queue = << >>
    /\ active_downloads = [id \in Ids |-> "absent"]
    /\ downloads_dict = << >>
    /\ enable_progress_bar = FALSE
    /\ clock = 0
    /\ runsLeft = runs
    /\ entriesLeft = entries
    /\ samplesLeft = samples
    /\ video_links = << >>
    /\ totalSize = 0
    /\ totalDuration = 0
    /\ ApiIdle

\* No selection is under way.
SelIdle ==
    /\ formats = << >>
    /\ groupedStreams = << >>
    /\ selpc = "idle"
    /\ choices = << >>
    /\ selected = << >>
    /\ warnings = 0
    /\ output = NoOutput

\* parseAndSelectStreams has fetched the formats fs of an item.
SelStart(fs) ==
    /\ formats = fs
    /\ groupedStreams = << >>
    /\ selpc = "start"
    /\ choices = << >>
    /\ selected = << >>
    /\ warnings = 0
    /\ output = NoOutput

\* ProgressBar as its class body leaves it; no thread is inside the hook.
PbIdle ==
    /\ now = StartTime
    /\ last_execution_time = 0
    /\ throttle_lock = 0
    /\ hooks = [t \in HookThreads |-> HookIdle]
    /\ renders = << >>
    /\ cursor = 0

InitWith(runs, entries, samples) == MainInit(runs, entries, samples) /\ SelIdle /\ PbIdle

\* A few runs over a few items, and one run over more items than workers.
Init == InitWith(MaxRuns, MaxEntries, MaxSamples)
InitPool == InitWith(1, MaxPoolEntries, 0)

Metas == {"ok", "none", "exc"}
Outs == {"ok", "status", "exc"}
AudioOnly == {FALSE}
JobIx == 1..(MaxPoolEntries + 1)

\* The operator's requests.
Requests(wds) ==
    \/ \E ao \in AudioOnly, wd \in wds : start_batch_download(ao, wd)
    \/ \E ao \in AudioOnly, wd \in wds : start_playlist_download(ao, wd, "title")
    \/ \E m \in {"ok", "none"} : downloadYoutubePlaylist(m)

SingleRequests ==
    \/ \E url \in Links, ao \in AudioOnly, wd \in BOOLEAN : start_download(url, ao, wd)
    \/ \E id \in Ids, ans \in BOOLEAN, m \in {"ok", "none"}, pick \in Picks :
          downloadSingleYoutubeVideo(id, ans, m, pick)

\* The loops of the controlling threads.
Loops(ids, metas, picks) ==
    \/ \E url \in [form : Forms, id : ids], m \in metas : batch_download_task(url, m)
    \/ \E id \in ids, m \in metas : playlist_download_task(id, m)
    \/ ExecutorShutdown
    \/ RunCompleted
    \/ \E id \in ids, ans \in BOOLEAN, m \in {"ok", "none"}, pick \in picks :
          downloadYoutubePlaylist_entry(id, ans, m, pick)
    \/ downloadYoutubePlaylist_join

\* The steps of the jobs: workers of the executor, threads of the playlist.
JobSteps(outs, ehs) ==
    \/ \E i \in JobIx : ExecutorRun(i)
    \/ \E i \in JobIx, out \in outs, ext \in {"", "mkv", "m4a", "webm"}, eh \in ehs :
          downloadFromYoutube(i, out, ext, eh)
    \/ \E i \in JobIx, out \in outs : downloadYoutubeVideo(i, out)
    \/ \E i \in JobIx : downloadYoutubeVideo_record(i)

SingleSteps ==
    \/ \E m \in Metas : download_task(m)
    \/ download_task_result
    \/ \E i \in JobIx : web_progress_hook(i)
    \/ \E f \in disk : RemoveFile(f)
    \/ get_progress_updates

Next ==
    \/ Requests(BOOLEAN)
    \/ SingleRequests
    \/ Loops(Ids, Metas, Picks)
    \/ JobSteps(Outs, BOOLEAN)
    \/ SingleSteps

\* One run of a pipeline that schedules several jobs; a failing fetch is a
\* nonzero status code that the downloader did not report to the hook.
NextPool ==
    \/ Requests({FALSE})
    \/ Loops(PoolIds, {"ok", "none"}, {"empty", "mp4"})
    \/ JobSteps({"ok", "status"}, {FALSE})

Spec == Init /\ [][Next]_vars
SpecPool == InitPool /\ [][NextPool]_vars

\* Every fetch terminates and every thread that can take a step is scheduled:
\* the workers of the executor, the threads of the playlist, and the
\* controlling thread once the operator's list is exhausted.
Fairness ==
    /\ WF_vars(\E i \in JobIx : ExecutorRun(i))
    /\ WF_vars(\E i \in JobIx, out \in {"ok", "status"}, ext \in {"", "mkv"} :
                  downloadFromYoutube(i, out, ext, FALSE))
    /\ WF_vars(\E i \in JobIx, out \in {"ok", "status"} : downloadYoutubeVideo(i, out))
    /\ WF_vars(\E i \in JobIx : downloadYoutubeVideo_record(i))

LiveSpecPool == InitPool /\ [][NextPool]_vars /\ Fairness

\* One run of a pipeline that schedules several jobs, with every kind of
\* failure: unresolved metadata, a nonzero status code, an exception.
InitFail == InitWith(1, MaxFailEntries, 0)

NextFail ==
    \/ Requests({FALSE})
    \/ Loops(PoolIds, Metas, {"empty", "mp4"})
    \/ JobSteps(Outs, BOOLEAN)

SpecFail == InitFail /\ [][NextFail]_vars
LiveSpecFail == InitFail /\ [][NextFail]_vars /\ Fairness

\* Single downloads, one after the other, over description files that may
\* have been left empty.
NextDesc ==
    \/ \E url \in [form : {"watch"}, id : Ids], wd \in BOOLEAN :
          start_download(url, FALSE, wd)
    \/ download_task("ok")
    \/ \E out \in {"ok", "status"}, ext \in {"", "mkv"} :
          downloadFromYoutube(1, out, ext, FALSE)
    \/ download_task_result
    \/ get_progress_updates
    \/ \E id \in Ids : downloadSingleYoutubeVideo(id, TRUE, "ok", "mp4")
    \/ \E out \in {"ok", "status"} : downloadYoutubeVideo(1, out)
    \/ downloadYoutubeVideo_record(1)
    \/ \E f \in disk : EmptyDescription(f)

SpecDesc == Init /\ [][NextDesc]_vars

\* The formats of the items the selection is run over.
A139 == Stream("139", "low", "m4a", 10, SizeAbsent, "audio only", "none", "mp4a")
A140 == Stream("140", "medium", "m4a", SizeNull, 20, "audio only", "none", "mp4a")
V134 == Stream("134", "360p", "mp4", 100, SizeAbsent, "640x360", "avc1", "none")
V135 == Stream("135", "480p", "mp4", 200, 210, "854x480", "avc1", "none")
V136 == Stream("136", "720p", "mp4", 300, SizeAbsent, "1280x720", "avc1", "none")
V137 == Stream("137", "1080p", "mp4", SizeAbsent, 400, "1920x1080", "avc1", "none")
W247 == Stream("247", "720p", "webm", 250, SizeAbsent, "1280x720", "vp9", "none")
AV18 == Stream("18", "360p", "mp4", 50, SizeAbsent, "640x360", "avc1", "mp4a")
SB0 == Stream("sb0", "storyboard", "mhtml", SizeAbsent, SizeAbsent, "48x27", "none", "none")
D251 == Stream("251", "Default", "webm", 30, SizeAbsent, "audio only", "none", "opus")

Catalogs ==
    { << A139, A140, V134, V135, V136 >>,
      << SB0, AV18, A139, V134 >>,
      << V134, W247, D251, A139 >>,
      << V137, A139 >>,
      << SB0 >> }

InitSel == \E fs \in Catalogs : MainInit(0, 0, 0) /\ SelStart(fs) /\ PbIdle

NextSel ==
    \/ parseAndSelectStreams
    \/ selectStreams_input
    \/ selectStreams
    \/ parseAndSelectStreams_output

SpecSel == InitSel /\ [][NextSel]_vars

\* Every short list of raw formats: each field over the values the filter
\* and the categories tell apart, the ids in the order of the list.
FormatIds == << "f1", "f2", "f3", "f4" >>

RawFormats ==
    { Stream("", note, ext, size[1], size[2], kind[1], kind[2], kind[3]) :
        note \in {Absent, "", "Default", "DASH video", "dash audio", "720p"},
        ext \in {"mp4", "webm", "mhtml", "3gp"},
        size \in {<< SizeAbsent, SizeAbsent >>, << SizeNull, 5 >>,
                  << SizeAbsent, 5 >>, << 7, SizeAbsent >>},
        kind \in {<< "audio only", "none", "mp4a" >>,
                  << "1280x720", "avc1", "none" >>,
                  << "640x360", "avc1", "mp4a" >>} }

WithIds(raw) == [k \in 1..Len(raw) |-> [raw[k] EXCEPT !.format_id = FormatIds[k]]]

InitGroup ==
    \E n \in 0..MaxFormats : \E raw \in [1..n -> RawFormats] :
        MainInit(0, 0, 0) /\ SelStart(WithIds(raw)) /\ PbIdle

NextGroup == parseAndSelectStreams

SpecGroup == InitGroup /\ [][NextGroup]_vars

\* Longer lists over fewer raw formats: what the order of a grouping
\* depends on is the category of each entry and whether it is kept.
OrderFormats ==
    { Stream("", note, ext, 7, SizeAbsent, kind[1], kind[2], kind[3]) :
        note \in {"Default", "720p"},
        ext \in {"mp4", "webm"},
        kind \in {<< "audio only", "none", "mp4a" >>,
                  << "1280x720", "avc1", "none" >>,
                  << "640x360", "avc1", "mp4a" >>} }

InitOrder ==
    \E n \in 0..MaxOrderFormats : \E raw \in [1..n -> OrderFormats] :
        MainInit(0, 0, 0) /\ SelStart(WithIds(raw)) /\ PbIdle

SpecOrder == InitOrder /\ [][NextGroup]_vars

\* Batch runs of the page over the links of the file, one after the other.
LinkLines == Links \cup {BlankLine}

InitLinks == InitWith(MaxLinkRuns, MaxLinkEntries, 0)

NextLinks ==
    \/ \E n \in 0..MaxLinks : \E content \in [1..n -> LinkLines] : save_batch_links(content)
    \/ \E ao \in AudioOnly : download_batch(ao, FALSE)
    \/ \E m \in Metas : batch_download_task_next(m)
    \/ batch_download_task_end
    \/ RunCompleted
    \/ \E i \in JobIx : ExecutorRun(i)
    \/ \E i \in JobIx, out \in {"ok", "status"}, ext \in {"", "mkv"} :
          downloadFromYoutube(i, out, ext, FALSE)
    \/ get_progress_updates

SpecLinks == InitLinks /\ [][NextLinks]_vars

\* A download from the page, then a playlist from the command line over
\* items that may have been downloaded before.
InitTotals == InitWith(MaxRuns, MaxTotalEntries, 0)

NextTotals ==
    \/ \E id \in Ids : start_download([form |-> "watch", id |-> id], FALSE, FALSE)
    \/ download_task("ok")
    \/ download_task_result
    \/ \E i \in JobIx : downloadFromYoutube(i, "ok", "mkv", FALSE)
    \/ \E f \in disk : RemoveFile(f)
    \/ get_progress_updates
    \/ \E m \in {"ok", "none"} : downloadYoutubePlaylist(m)
    \/ \E id \in Ids, ans \in BOOLEAN, m \in {"ok", "none"}, pick \in Picks :
          downloadYoutubePlaylist_entry(id, ans, m, pick)
    \/ downloadYoutubePlaylist_join
    \/ \E i \in JobIx, out \in Outs : downloadYoutubeVideo(i, out)
    \/ \E i \in JobIx : downloadYoutubeVideo_record(i)

SpecTotals == InitTotals /\ [][NextTotals]_vars

\* Downloads from the page, one after the other, seen step by step.
InitCommit == InitWith(MaxRuns, MaxEntries, MaxSamples)

NextCommit ==
    \/ \E url \in Links, ao \in AudioOnly, wd \in BOOLEAN : start_download(url, ao, wd)
    \/ \E m \in Metas : download_task(m)
    \/ \E i \in JobIx, out \in Outs, ext \in {"", "mkv"}, eh \in BOOLEAN :
          downloadFromYoutube(i, out, ext, eh)
    \/ \E i \in JobIx : web_progress_hook(i)
    \/ download_task_commit
    \/ download_task_put
    \/ download_task_error
    \/ get_progress_updates_next
    \/ \E url \in Links, m \in Metas : get_streams(url, m)
    \/ Return

SpecCommit == InitCommit /\ [][NextCommit]_vars

\* Samples of every byte count up to a total, rendered on terminals of two
\* widths.
ByteSamples == {EtaNone} \cup (0..MaxBytes)

NextBytes ==
    \/ \E d \in ByteSamples, t \in ByteSamples : progressBarHook_bytes(d, t)
    \/ \E columns \in {20, 80} : printProgressBar_bytes(columns)
    \/ Return

SpecBytes == InitWith(0, 0, 0) /\ [][NextBytes]_vars

\* Calls of getPlaylistStartAndEnd with every pair of arguments, and every
\* line the operator can answer a prompt with.
NextRange ==
    \/ \E n \in 1..MaxCount, a \in -1..MaxCount, b \in -1..MaxCount :
          getPlaylistStartAndEnd(n, a, b)
    \/ \E n \in 1..MaxRangeTokens : \E line \in [1..n -> RangeTokens] :
          /\ n > 1 => (line[1] # "" /\ line[n] # "")
          /\ getPlaylistStartAndEnd_input(line)
    \/ Return

SpecRange == InitWith(0, 0, 0) /\ [][NextRange]_vars

\* Downloads from the page with two connections to the progress stream.
NextStream ==
    \/ \E url \in Links, ao \in AudioOnly : start_download(url, ao, FALSE)
    \/ \E m \in Metas : download_task(m)
    \/ \E i \in JobIx, out \in Outs, ext \in {"", "mkv"}, eh \in BOOLEAN :
          downloadFromYoutube(i, out, ext, eh)
    \/ \E i \in JobIx : web_progress_hook(i)
    \/ download_task_result
    \/ \E c \in Consumers : progress_stream(c)

SpecStream == InitCommit /\ [][NextStream]_vars

\* Downloads from the page with and without a description file, files that
\* are deleted afterwards, and the presence check on the rows written.
NextPresent ==
    \/ \E url \in Links, wd \in BOOLEAN : start_download(url, FALSE, wd)
    \/ download_task("ok")
    \/ \E i \in JobIx : downloadFromYoutube(i, "ok", "mkv", FALSE)
    \/ download_task_result
    \/ get_progress_updates
    \/ \E f \in disk : RemoveFile(f)
    \/ \E row \in History, answer \in BOOLEAN : isFilePresent_call(row, answer)
    \/ Return

SpecPresent == InitCommit /\ [][NextPresent]_vars

\* Downloads in threads that deliver samples to ProgressBar.progressBarHook,
\* the bar switched on or off before they start.
InitRender ==
    /\ History = {}
    /\ disk = {}
    /\ pipeline = "idle"
    /\ mainpc = "idle"
    /\ opts = NoOpts
    /\ jobs = << >>
    /\ results = {}
    /\ progress_queue = << >>
    /\ active_downloads = [id \in Ids |-> "absent"]
    /\ downloads_dict = << >>
    /\ enable_progress_bar \in BOOLEAN
    /\ clock = 0
    /\ runsLeft = 0
    /\ entriesLeft = 0
    /\ samplesLeft = MaxHookCalls
    /\ video_links = << >>
    /\ totalSize = 0
    /\ totalDuration = 0
    /\ ApiIdle
    /\ SelIdle
    /\ PbIdle

HookSteps(threads, statuses, etas) ==
    \/ \E t \in threads, status \in statuses, eta \in etas :
          progressBarHook_update(t, status, eta)
    \/ \E t \in threads : progressBarHook_throttle(t)
    \/ \E t \in threads : displayProgressBars_print(t)
    \/ \E t \in threads : moveCursorUp(t)
    \/ Tick

NextRender ==
    \/ HookSteps(HookThreads, {"downloading", "finished", "error"}, {5})
    \/ \E t \in HookThreads : downloadFromYoutube_pop(t)

SpecRender == InitRender /\ [][NextRender]_vars

\* One download, the bar on, samples with every kind of eta.
NextEta == HookSteps({1}, {"downloading"}, EtaSamples)

SpecEta == InitRender /\ [][NextEta]_vars

\* Runs of the command-line batch, with the progress table in use.
InitBar == InitWith(MaxBarRuns, MaxBarEntries, MaxBarSamples)

NextBar ==
    \/ \E wd \in {FALSE}, en \in BOOLEAN : downloadMultipleYoutubeVideos(wd, en)
    \/ \E url \in Links, ans \in BOOLEAN, m \in {"ok", "none"} :
          downloadMultipleYoutubeVideos_link(url, ans, m)
    \/ \E i \in JobIx : downloadMultipleYoutubeVideos_worker(i)
    \/ \E i \in JobIx, status \in {"downloading", "finished", "error"}, due \in BOOLEAN :
          progressBarHook(i, status, due)
    \/ \E i \in JobIx, out \in Outs, ext \in {"", "mkv"}, eh \in BOOLEAN :
          downloadFromYoutube(i, out, ext, eh)
    \/ \E i \in JobIx : downloadMultipleYoutubeVideos_result(i)
    \/ downloadMultipleYoutubeVideos_return
    \/ \E f \in disk : RemoveFile(f)

SpecBar == InitBar /\ [][NextBar]_vars

----------------------------------------------------------------------------
(* C1: in a GUI batch or playlist run at most max_workers calls of           *)
(* downloadFromYoutube execute at the same time, whatever the number of      *)
(* submitted entries.                                                        *)
C1_AtMostFourRunning ==
    pipeline \in PoolPipelines => Cardinality(Running) <= max_workers

\* More jobs than workers were submitted and all the workers are busy.
C1_Witness ==
    /\ pipeline \in PoolPipelines
    /\ Cardinality(Running) = max_workers
    /\ \E i \in 1..Len(jobs) : jobs[i].st = "queued"

(* C2: every job submitted in a batch or playlist run eventually reaches a   *)
(* terminal state, given that fetches terminate and scheduling is fair.      *)
C2_EveryJobTerminates ==
    \A i \in JobIx :
        (i <= Len(jobs) /\ Submitted(jobs[i])) ~> (i <= Len(jobs) /\ jobs[i].st = "done")

\* A run in which more jobs than workers were submitted has drained.
C2_Witness ==
    /\ mainpc = "done"
    /\ Cardinality({i \in 1..Len(jobs) : jobs[i].st = "done"}) > max_workers

(* C3: in downloadYoutubePlaylist no more than 4 download jobs               *)
(* (downloadYoutubeVideo) are in flight at the same time.                    *)
C3_AtMostFourThreads ==
    pipeline = "cli_playlist" =>
        Cardinality({i \in 1..Len(jobs) : jobs[i].st \in {"running", "returned"}})
            <= max_workers

----------------------------------------------------------------------------
(* C4: the History table holds at most one record per item id.               *)
C4_OneRecordPerId ==
    \A r1, r2 \in History : r1.video_id = r2.video_id => r1 = r2

\* An INSERT for an id that already has a record was attempted and refused.
C4_Witness ==
    \E i \in 1..Len(jobs) :
        /\ jobs[i].ret = "raised"
        /\ jobs[i].out = "ok"
        /\ Select(History, jobs[i].id) # {}

----------------------------------------------------------------------------
(* C5: when start_download is invoked for an id that an earlier              *)
(* start_download has recorded in History, and the recorded file is still    *)
(* on disk, it performs no transfer, and History holds exactly one record    *)
(* for that id.                                                              *)
C5_SecondDownloadNoTransfer ==
    (/\ pipeline = "gui_single"
     /\ Len(jobs) = 1
     /\ jobs[1].before
     /\ \E r \in Select(History, jobs[1].id) :
            /\ r.location = opts.location
            /\ r.filename.ext = FileExt(opts)
            /\ IsFile(disk, r))
    => (/\ jobs[1].st # "running"
        /\ Cardinality(Select(History, jobs[1].id)) = 1)

(* C6: when a command-line pipeline (downloadSingleYoutubeVideo,             *)
(* downloadYoutubePlaylist) examines an item that has a History record and   *)
(* the media file of the recorded name is on disk, the item is skipped as    *)
(* already downloaded: no prompt, no transfer, no History write.             *)
C6_PresentFileSkipped ==
    [][(/\ pipeline' \in CliPipelines
        /\ jobs' # << >>
        /\ \/ pipeline' = "cli_single" /\ mainpc \in {"idle", "done"}
           \/ pipeline = "cli_playlist" /\ Len(jobs') = Len(jobs) + 1)
       => LET j == jobs'[Len(jobs')]
          IN  (/\ j.why # "unresolved"
               /\ \E r \in Select(History, j.id) : \E f \in disk :
                      f.loc = r.location /\ f.base = r.filename.base /\ f.ext # "txt")
              => (/\ j.st = "skipped"
                  /\ j.why = "already"
                  /\ ~j.prompted
                  /\ History' = History)]_vars

(* C7: in every pipeline, once the run has finished, History holds for each  *)
(* job whose transfer succeeded a record of that id with the job's file name *)
(* and location.                                                             *)
C7_SuccessRecorded ==
    mainpc = "done" =>
        \A i \in 1..Len(jobs) :
            jobs[i].out = "ok" =>
                \E r \in Select(History, jobs[i].id) :
                    /\ r.filename = jobs[i].row.filename
                    /\ r.location = jobs[i].row.location

(* C8: a job whose fetch failed (nonzero status code or exception) leaves    *)
(* the History table as it was: none of its steps inserts or updates a row.  *)
C8_FailureLeavesHistory ==
    [][\A i \in JobIx :
          (/\ pipeline' = pipeline
           /\ i <= Len(jobs)
           /\ i <= Len(jobs')
           /\ jobs'[i] # jobs[i]
           /\ jobs'[i].out \in {"status", "exc"})
          => History' = History]_vars

\* A fetch for an id that has a record failed and was handled; the record is
\* the one of the earlier run.
C8_Witness ==
    \E i \in 1..Len(jobs) :
        /\ jobs[i].out \in {"status", "exc"}
        /\ jobs[i].st = "done"
        /\ jobs[i].before
        /\ \E r \in Select(History, jobs[i].id) : r.date < clock

(* C9: when downloadFromYoutube returns a failure for an item, the progress  *)
(* table ProgressBar.downloads_dict has no entry under the item's id.        *)
C9_FailureLeavesNoEntry ==
    [][\A i \in JobIx :
          (/\ i \in Running
           /\ i <= Len(jobs')
           /\ jobs'[i].ret = "failure")
          => ~DictHas(downloads_dict', jobs[i].id)]_vars

\* A fetch that progressBarHook had entered into the table has failed, and
\* the table has no entry for it.
C9_Witness ==
    \E i \in 1..Len(jobs) :
        /\ pipeline = "cli_multi"
        /\ jobs[i].ret = "failure"
        /\ jobs[i].sample = "downloading"
        /\ ~DictHas(downloads_dict, jobs[i].id)

(* C10: when a GUI run reports completion, every job of it whose transfer    *)
(* failed has been reported by an error event naming the item.               *)
C10_FailuresReported ==
    (pipeline \in GuiPipelines /\ mainpc = "done") =>
        \A i \in 1..Len(jobs) :
            jobs[i].out \in {"status", "exc"} => jobs[i].reported

----------------------------------------------------------------------------
(* C11: a failure of one job (unresolved metadata, nonzero fetch status, or  *)
(* an exception inside the fetch) never prevents another job of the same run *)
(* from being submitted, nor from running to its own terminal state.         *)
C11_FailureIsLocal ==
    /\ []((/\ mainpc = "loop"
           /\ entriesLeft > 0
           /\ \E k \in 1..Len(jobs) :
                 \/ jobs[k].why \in {"unresolved", "extract_error"}
                 \/ jobs[k].out \in {"status", "exc"})
          => ENABLED (/\ \/ batch_download_task([form |-> "watch", id |-> "a"], "ok")
                         \/ playlist_download_task("a", "ok")
                         \/ downloadYoutubePlaylist_entry("a", TRUE, "ok", "mp4")
                      /\ Submitted(jobs'[Len(jobs')])))
    /\ \A i \in JobIx :
          (/\ i <= Len(jobs)
           /\ Submitted(jobs[i])
           /\ \E k \in (1..Len(jobs)) \ {i} :
                 \/ jobs[k].why \in {"unresolved", "extract_error"}
                 \/ jobs[k].out \in {"status", "exc"})
          ~> (i <= Len(jobs) /\ jobs[i].st = "done")

\* After an entry failed, a later entry was submitted and its transfer
\* succeeded.
C11_Witness ==
    \E k \in 1..Len(jobs) : \E i \in (k + 1)..Len(jobs) :
        /\ \/ jobs[k].why \in {"unresolved", "extract_error"}
           \/ jobs[k].out \in {"status", "exc"}
        /\ jobs[i].st = "done"
        /\ jobs[i].out = "ok"

----------------------------------------------------------------------------
(* C12: when a History record exists, the file is reported missing and the   *)
(* operator refuses the re-download, the entry is skipped: no transfer is    *)
(* started for it and the step leaves the History table unchanged.           *)
C12_RefusalSkips ==
    [][\A i \in JobIx :
          (i <= Len(jobs') /\ jobs'[i].why = "refused")
          => /\ jobs'[i].st = "skipped"
             /\ jobs'[i].out = "none"
             /\ jobs'[i].before
             /\ (i > Len(jobs) \/ jobs[i] # jobs'[i]) => History' = History]_vars

\* The operator refused an item whose record is in History and whose file
\* is gone.
C12_Witness ==
    \E i \in 1..Len(jobs) :
        /\ pipeline \in CliPipelines
        /\ jobs[i].why = "refused"
        /\ \E r \in Select(History, jobs[i].id) :
              ~\E f \in disk : f.loc = r.location /\ f.base = r.filename.base
                                /\ f.ext # "txt"

----------------------------------------------------------------------------
----------------------------------------------------------------------------
(* C14: when the threads of a playlist run, each for an item id of its own,  *)
(* write their History records, no write is lost and no record mixes two     *)
(* jobs: every job that wrote finds exactly its own record in History, and   *)
(* once the run has finished every successful job has written.               *)
C14_ConcurrentWritesKept ==
    (/\ pipeline = "cli_playlist"
     /\ \A i, k \in 1..Len(jobs) : jobs[i].id = jobs[k].id => i = k)
    => \A i \in 1..Len(jobs) :
          /\ jobs[i].wrote => Select(History, jobs[i].id) = {jobs[i].row}
          /\ (mainpc = "done" /\ jobs[i].out = "ok") => jobs[i].wrote

\* Two threads of one run, for different items, have both written.
C14_Witness ==
    /\ pipeline = "cli_playlist"
    /\ mainpc = "done"
    /\ \E i, k \in 1..Len(jobs) :
          /\ jobs[i].id # jobs[k].id
          /\ jobs[i].wrote
          /\ jobs[k].wrote
          /\ {jobs[i].row, jobs[k].row} \subseteq History

----------------------------------------------------------------------------
(* The line ch picks n streams of the grouping g: 2n numerals, each         *)
(* category index within the categories, each item index within the         *)
(* category chosen (both counted from 1).                                   *)
PicksWithin(ch, g, n) ==
    /\ Len(ch) = 2 * n
    /\ \A k \in 1..Len(ch) : ch[k] \in Numerals
    /\ \A k \in 1..n :
          /\ IntOf(ch[2 * k - 1]) \in 1..Len(g)
          /\ IntOf(ch[2 * k]) \in 1..Len(g[IntOf(ch[2 * k - 1])].streams)

\* The stream the k-th pick of the line designates.
Picked(ch, g, k) == g[IntOf(ch[2 * k - 1])].streams[IntOf(ch[2 * k])]

\* The raw format a selected stream was made from.
Untyped(stream) == [stream EXCEPT !.type = Absent]

(* C15: selectStreams returns a non-empty selection only for a line of      *)
(* exactly 2 or exactly 4 integers whose category indexes lie in            *)
(* 1..number of categories and whose item indexes lie in 1..size of the     *)
(* chosen category, and the selection is the streams picked; the empty      *)
(* line returns the empty selection; over categories of sizes 2 and 3 the   *)
(* line 1 1 2 4 is rejected.                                                *)
C15_SelectionValidated ==
    [][selpc = "read" =>
        /\ selected' # << >> =>
              \E n \in {1, 2} :
                  /\ PicksWithin(choices, groupedStreams, n)
                  /\ Len(selected') = n
                  /\ \A k \in 1..n :
                        Untyped(selected'[k]) = Untyped(Picked(choices, groupedStreams, k))
        /\ choices = << "" >> => selpc' = "skipped" /\ selected' = << >>
        /\ (/\ printStreamsTable(groupedStreams) = << 2, 3 >>
            /\ choices = << "1", "1", "2", "4" >>) =>
              selpc' = "prompt" /\ selected' = << >>]_vars

\* Over categories of sizes 2 and 3 the last stream of the second category
\* and the first of the first were selected with one line.
C15_Witness ==
    /\ printStreamsTable(groupedStreams) = << 2, 3 >>
    /\ choices = << "2", "3", "1", "1" >>
    /\ selpc = "selected"
    /\ Len(selected) = 2

----------------------------------------------------------------------------
(* C16: a line of 4 integers within range is rejected whenever one of the   *)
(* two streams it resolves to is of kind audio-video or both are of the     *)
(* same kind; selectStreams never returns two such streams.                 *)
C16_IncompatiblePairRejected ==
    [][selpc = "read" =>
        /\ (/\ PicksWithin(choices, groupedStreams, 2)
            /\ LET k1 == findStreamType(Picked(choices, groupedStreams, 1))
                   k2 == findStreamType(Picked(choices, groupedStreams, 2))
               IN  "audio-video" \in {k1, k2} \/ k1 = k2) =>
              selpc' = "prompt" /\ selected' = << >>
        /\ Len(selected') = 2 =>
              /\ findStreamType(selected'[1]) # findStreamType(selected'[2])
              /\ "audio-video" \notin {findStreamType(selected'[1]),
                                       findStreamType(selected'[2])}]_vars

\* A pair with a stream that has both audio and video was resolved and
\* refused: the operator is at the prompt again.
C16_Witness ==
    /\ selpc = "prompt"
    /\ warnings = 1
    /\ \E k \in 1..Len(groupedStreams) : \E n \in 1..Len(groupedStreams[k].streams) :
          groupedStreams[k].streams[n].type = "audio-video"
    /\ \E k \in 1..Len(groupedStreams) : \E n \in 1..Len(groupedStreams[k].streams) :
          groupedStreams[k].streams[n].type = "audio"

----------------------------------------------------------------------------
\* The line ch is a valid selection over the grouping g: one stream, or two
\* streams that can be combined.
ValidSelection(ch, g) ==
    \/ PicksWithin(ch, g, 1)
    \/ /\ PicksWithin(ch, g, 2)
       /\ findStreamType(Picked(ch, g, 1)) # findStreamType(Picked(ch, g, 2))
       /\ "audio-video" \notin {findStreamType(Picked(ch, g, 1)),
                                findStreamType(Picked(ch, g, 2))}

(* C17: whatever the lines the operator has entered, selectStreams handles  *)
(* the next one: a line that is neither empty nor a valid selection (wrong  *)
(* number of tokens, a token that is no integer, an index out of range, an  *)
(* incompatible pair) gives a warning and the next prompt, with nothing     *)
(* selected and the pipeline still running; the function returns only on    *)
(* the empty line or a valid selection.                                     *)
C17_InvalidInputReprompts ==
    /\ [](selpc = "read" /\ warnings < MaxWarnings => ENABLED selectStreams)
    /\ [][selpc = "read" =>
            IF choices = << "" >> \/ ValidSelection(choices, groupedStreams)
            THEN selpc' \in {"skipped", "selected"}
            ELSE /\ selpc' = "prompt"
                 /\ warnings' = warnings + 1
                 /\ selected' = << >>
                 /\ output' = output]_vars

\* After as many rejected lines as the model allows, a selection was made.
C17_Witness ==
    /\ warnings = MaxWarnings
    /\ selpc = "selected"
    /\ selected # << >>

----------------------------------------------------------------------------
(* C18: for a selection that was resolved, the format spec is the id of the *)
(* video stream, "+", the id of the audio stream when one video and one     *)
(* audio stream were picked, in whichever order they were picked, and the   *)
(* id of the stream when one stream was picked; the output container is     *)
(* "mp4" for two streams and the container of the stream for one.           *)
C18_FormatSpec ==
    selpc = "done" =>
        /\ Len(selected) = 2 =>
              /\ \E v, a \in 1..2 :
                    /\ findStreamType(selected[v]) = "video"
                    /\ findStreamType(selected[a]) = "audio"
                    /\ output.format =
                          << selected[v].format_id, "+", selected[a].format_id >>
              /\ output.fileExtension = "mp4"
        /\ Len(selected) = 1 =>
              /\ output.format = << selected[1].format_id >>
              /\ output.fileExtension = selected[1].ext

\* The audio stream was picked first, the video stream second.
C18_Witness ==
    /\ selpc = "done"
    /\ Len(selected) = 2
    /\ findStreamType(selected[1]) = "audio"
    /\ findStreamType(selected[2]) = "video"
    /\ selected[2].ext = "webm"

----------------------------------------------------------------------------
\* The size of a stream that survives grouping: the exact size when it is
\* known, else the approximate size.
KnownSize(stream) ==
    IF Truthy(GetSize(stream.filesize)) THEN stream.filesize
    ELSE stream.filesize_approx

RECURSIVE SumKnownSizes(_, _)
SumKnownSizes(sel, n) ==
    IF n > Len(sel) THEN 0 ELSE KnownSize(sel[n]) + SumKnownSizes(sel, n + 1)

(* C19: resolving a selection of streams that survived grouping ends        *)
(* without error, and the aggregate size is the sum over the selected       *)
(* streams of the exact size when it is known, else of the approximate      *)
(* size.                                                                    *)
C19_AggregateSize ==
    (selected # << >> /\ selpc \in {"done", "raised"}) =>
        /\ selpc = "done"
        /\ output.size = SumKnownSizes(selected, 1)

----------------------------------------------------------------------------
\* The places of the grouping g that hold the entry stream.
Places(g, stream) ==
    {kn \in UNION {{<< k, n >> : n \in 1..Len(g[k].streams)} : k \in 1..Len(g)} :
        g[kn[1]].streams[kn[2]] = stream}

\* The entry is one that the rules of the filter drop.
FailsFilter(stream) ==
    \/ stream.format_note \in {Absent, Null, "", "Default"}
    \/ Upper4(stream.format_note) = "DASH"
    \/ stream.ext \in {"mhtml", "3gp"}
    \/ /\ stream.filesize \in {SizeAbsent, SizeNull, 0}
       /\ stream.filesize_approx \in {SizeAbsent, SizeNull, 0}

(* C20: groupYoutubeStreams partitions exactly the entries that pass the    *)
(* filter.  An entry whose format_note is missing, empty or "Default" or    *)
(* begins with "DASH" in any case, or whose container is "mhtml" or "3gp",  *)
(* or which has neither an exact nor an approximate size is in no           *)
(* category; every other entry is in exactly one place: under audio/<ext>   *)
(* if its resolution is "audio only", else under video/<ext> if it has a    *)
(* video codec and no audio codec, else under audio-video/<ext>; and the    *)
(* categories hold nothing else.                                            *)
C20_GroupingPartitions ==
    selpc # "start" =>
        /\ \A i \in 1..Len(formats) :
              LET stream == formats[i]
                  places == Places(groupedStreams, stream)
              IN  IF FailsFilter(stream) THEN places = {}
                  ELSE /\ Cardinality(places) = 1
                       /\ \A kn \in places :
                             groupedStreams[kn[1]].key =
                                 IF stream.resolution = "audio only"
                                 THEN << "audio", stream.ext >>
                                 ELSE IF stream.vcodec # "none" /\ stream.acodec = "none"
                                 THEN << "video", stream.ext >>
                                 ELSE << "audio-video", stream.ext >>
        /\ \A k \in 1..Len(groupedStreams) : \A n \in 1..Len(groupedStreams[k].streams) :
              \E i \in 1..Len(formats) : formats[i] = groupedStreams[k].streams[n]

----------------------------------------------------------------------------
\* The position in the input list of an entry of the grouping.
InputPos(stream) == CHOOSE i \in 1..Len(formats) : formats[i] = stream

(* C21: in the result of groupYoutubeStreams the streams of each category   *)
(* are in the order they have in the input list, and the categories are in  *)
(* the order of the first stream of each in the input list.                 *)
C21_OrderPreserved ==
    selpc # "start" =>
        /\ \A k \in 1..Len(groupedStreams) :
              \A n1, n2 \in 1..Len(groupedStreams[k].streams) :
                  n1 < n2 => InputPos(groupedStreams[k].streams[n1])
                                 < InputPos(groupedStreams[k].streams[n2])
        /\ \A k1, k2 \in 1..Len(groupedStreams) :
              k1 < k2 => InputPos(groupedStreams[k1].streams[1])
                             < InputPos(groupedStreams[k2].streams[1])

\* Two categories whose streams alternate in the input: the first category
\* holds the first and the third entry, the second category the second.
C21_Witness ==
    /\ selpc # "start"
    /\ Len(formats) = 3
    /\ Len(groupedStreams) = 2
    /\ groupedStreams[1].streams = << formats[1], formats[3] >>
    /\ groupedStreams[2].streams = << formats[2] >>

----------------------------------------------------------------------------
----------------------------------------------------------------------------
\* The step is the _moveCursorUp of thread t, the failure cleanup of thread t.
Rewinds(t) == hooks[t].pc = "rewind" /\ hooks'[t].pc # "rewind"
Pops(t) == hooks[t].pc # "failed" /\ hooks'[t].pc = "failed"

\* The step takes the entry of id out of the table.
Removes(id) == DictHas(downloads_dict, id) /\ ~DictHas(downloads_dict', id)

----------------------------------------------------------------------------
(* C24: when a sample with status error arrives for a download, the entry   *)
(* of that download is out of the progress table when the update of the     *)
(* hook is done, and no render from then on shows it.                       *)
C24_ErrorRemovesEntry ==
    [][/\ \A t \in HookThreads :
             (hooks[t].status # "error" /\ hooks'[t].status = "error") =>
                 ~DictHas(downloads_dict', HookIds[t])
       /\ Len(renders') > Len(renders) =>
             \A t \in HookThreads :
                 hooks[t].status = "error" =>
                     \A k \in 1..Len(renders'[Len(renders')].texts) :
                         renders'[Len(renders')].texts[k].id # HookIds[t]]_vars

----------------------------------------------------------------------------
(* C25: every insert or overwrite of the progress table is made by a        *)
(* thread that holds the lock, and the thread that prints the bars and      *)
(* rewinds the cursor does not hold the lock, so that a thread with a       *)
(* sample never waits for the render of another.                            *)
C25_LockOnlyAroundUpdates ==
    [][/\ samplesLeft' # samplesLeft =>
             \E t \in HookThreads : hooks'[t] # hooks[t] /\ throttle_lock = t
       /\ \A t \in HookThreads :
             hooks[t].pc \in {"display", "rewind"} => throttle_lock # t
       /\ \A t, u \in HookThreads :
             ~(hooks[t].pc = "lock" /\ hooks[u].pc \in {"display", "rewind"}
                   /\ throttle_lock = u)]_vars

----------------------------------------------------------------------------
(* C26: each render rewinds the cursor by as many rows as it printed,       *)
(* whatever the table holds, the empty table included: whenever no render   *)
(* is between its print and its rewind, the cursor is on the row it was on  *)
(* before the first render.                                                 *)
C26_CursorRestored ==
    (\A t \in HookThreads : hooks[t].pc # "rewind") => cursor = 0

----------------------------------------------------------------------------
(* C27: the ETA a render shows for a download whose last sample was a       *)
(* downloading sample is "Ns" for an eta of 0 <= N < 60 seconds, "Mm Ss"    *)
(* for 60 <= eta < 3600, "Hh Mm" for eta >= 3600, and "???" only for an     *)
(* eta that is unknown or negative.                                         *)
C27_EtaText ==
    [][Len(renders') > Len(renders) =>
          LET t == renders'[Len(renders')].by
              eta == hooks[t].eta
              texts == renders'[Len(renders')].texts
          IN  hooks[t].status = "downloading" =>
                  \E k \in 1..Len(texts) :
                      /\ texts[k].id = HookIds[t]
                      /\ texts[k].eta =
                            IF eta = EtaNone \/ eta < 0 THEN EtaText("???", 0, 0)
                            ELSE IF eta < 60 THEN EtaText("s", 0, eta)
                            ELSE IF eta < 3600 THEN EtaText("m s", eta \div 60, eta % 60)
                            ELSE EtaText("h m", eta \div 3600, (eta % 3600) \div 60)]_vars

(* C28: when a batch run over the links of the file completes, the file is   *)
(* left without links, so that a run started from it afterwards has nothing  *)
(* to schedule.                                                              *)
C28_LinkFileDrained ==
    [][(pipeline = "gui_batch" /\ mainpc = "wait" /\ mainpc' = "done")
          => get_batch_links(video_links') = << >>]_vars

(* C29: in a batch run a link from which no id can be parsed starts no job,  *)
(* is reported as skipped, and the links after it are still processed.       *)
C29_InvalidLinkSkipped ==
    pipeline = "gui_batch" =>
        \A i \in 1..Len(jobs) :
            jobs[i].why = "invalid" =>
                /\ jobs[i].st = "skipped"
                /\ jobs[i].reported
                /\ (/\ mainpc = "loop"
                    /\ i = Len(jobs)
                    /\ i < Len(get_batch_links(video_links))
                    /\ entriesLeft > 0)
                      => ENABLED (\E m \in Metas : batch_download_task_next(m))

\* The sums over the entries of js for which a thread was started.
RECURSIVE StartedSize(_)
StartedSize(js) ==
    IF js = << >> THEN 0
    ELSE (IF Submitted(Head(js)) THEN StreamsSize(Head(js).ext) ELSE 0) + StartedSize(Tail(js))

RECURSIVE StartedDuration(_)
StartedDuration(js) ==
    IF js = << >> THEN 0
    ELSE (IF Submitted(Head(js)) THEN Duration(Head(js).id) ELSE 0) + StartedDuration(Tail(js))

(* C30: the totals downloadYoutubePlaylist reports are the sums of the sizes  *)
(* and durations of the entries for which a download was started; an entry   *)
(* skipped as already downloaded, refused, unresolvable or not selected      *)
(* adds nothing.                                                             *)
C30_TotalsOverStartedJobs ==
    pipeline = "cli_playlist" =>
        /\ totalSize = StartedSize(jobs)
        /\ totalDuration = StartedDuration(jobs)

\* A finished playlist run with a started entry and entries skipped because
\* the file is there and because the operator refused.
C30_Witness ==
    /\ pipeline = "cli_playlist"
    /\ mainpc = "done"
    /\ totalSize > 0
    /\ \E i, k \in 1..Len(jobs) :
          /\ Submitted(jobs[i])
          /\ jobs[k].why \in {"already", "refused"}

(* C31: within one batch run no two jobs are for the same item id, also when *)
(* the links that name the item differ as text.                              *)
C31_NoDuplicateJobs ==
    pipeline = "gui_batch" =>
        \A i, k \in 1..Len(jobs) :
            (i # k /\ Submitted(jobs[i]) /\ Submitted(jobs[k])) => jobs[i].id # jobs[k].id

\* The queue holds the completion event of a run.
HasCompletion(q) ==
    \E k \in 1..Len(q) : q[k].status \in {"batch_completed", "playlist_completed"}

(* C32: the completion event of a batch or playlist run of the page is put   *)
(* on the queue when every job submitted in the run is terminal, and no      *)
(* event is put on the queue after it.                                       *)
C32_CompletionLast ==
    [][/\ (~HasCompletion(progress_queue) /\ HasCompletion(progress_queue'))
            => \A i \in 1..Len(jobs') : Terminal(jobs'[i])
       /\ HasCompletion(progress_queue)
            => (/\ progress_queue' \in {progress_queue, << >>}
                /\ \A i \in 1..Len(jobs) : jobs'[i] = jobs[i] \/ progress_queue' = << >>)]_vars

\* A run of the page has completed after a job that transferred its file.
C32_Witness ==
    /\ pipeline \in PoolPipelines
    /\ HasCompletion(progress_queue)
    /\ \E i \in 1..Len(jobs) : jobs[i].st = "done" /\ jobs[i].out = "ok"
    /\ \E k \in 1..Len(progress_queue) : progress_queue[k].status = "finished"

(* C33: a completed event for an id is on the queue of start_download only   *)
(* once the History write for the id is committed: whoever takes the event   *)
(* finds the record.                                                         *)
C33_CompletedAfterCommit ==
    \A k \in 1..Len(progress_queue) :
        progress_queue[k].status = "completed"
            => Select(History, progress_queue[k].video_id) # {}

\* The completed event of a download that has written its record is queued.
C33_Witness ==
    /\ pipeline = "gui_single"
    /\ mainpc = "done"
    /\ jobs[1].wrote
    /\ \E k \in 1..Len(progress_queue) :
          /\ progress_queue[k].status = "completed"
          /\ progress_queue[k].video_id = jobs[1].id

(* C34: get_streams answers already_downloaded = true exactly when History   *)
(* holds a record for the id parsed from the link.                           *)
C34_AlreadyDownloadedIffRecorded ==
    [][(call = NoCall /\ call'.fn = "get_streams" /\ retval'.kind = "streams")
          => retval'.already_downloaded = (Select(History, retval'.video_id) # {})]_vars

(* C35: for a downloading sample with a known total above 1 and a downloaded *)
(* count between 0 and the total, both included, the remaining bytes that    *)
(* are rendered lie between 0 and the total, the percentage between 0 and    *)
(* 100, and the filled width between 0 and the width of the bar.             *)
C35_BarWithinRange ==
    (/\ call.fn = "progressBarHook"
     /\ retval.kind = "text"
     /\ call.total_bytes > 1
     /\ call.downloaded_bytes \in 0..call.total_bytes)
        => /\ retval.bytes_remaining \in 0..call.total_bytes
           /\ retval.percent_num \in 0..(100 * retval.percent_den)
           /\ retval.fill_width \in 0..retval.max_width

(* C36: every pair getPlaylistStartAndEnd returns has 1 <= start <= end <=   *)
(* playlist_count, whatever the arguments and the lines typed were; any      *)
(* other input is answered by a new prompt.                                  *)
C36_RangeWithinPlaylist ==
    (call.fn = "getPlaylistStartAndEnd" /\ retval.kind = "pair")
        => /\ 1 <= retval.start
           /\ retval.start <= retval.end
           /\ retval.end <= call.playlist_count

\* Event e is in the sequence q.
Holds(q, e) == \E k \in 1..Len(q) : q[k] = e

(* C37: with two consumers connected to the progress stream, an event that   *)
(* one of them has received has reached the other as well, or is still       *)
(* queued for it; so each consumer gets every event of a job, its completed  *)
(* or error event in particular.                                             *)
C37_EveryConsumerGetsEvery ==
    \A c1, c2 \in Consumers :
        \A k \in 1..Len(delivered[c1]) :
            \/ Holds(delivered[c2], delivered[c1][k])
            \/ Holds(progress_queue, delivered[c1][k])

(* C38: isFilePresent reports an item as downloaded without asking only when *)
(* the recorded media file is still in the recorded location; with the media *)
(* file gone and its description file left, the operator is asked.           *)
C38_PresentOnlyWithMedia ==
    [][(call = NoCall /\ call'.fn = "isFilePresent" /\ ~retval'.prompted)
          => /\ retval'.value
             /\ Exists(disk, call'.row.location, call'.row.filename.base,
                       call'.row.filename.ext)]_vars

(* C39: under every interleaving of the hook calls of concurrent jobs, the   *)
(* throttled render with its removal of finished entries, and the failure    *)
(* cleanup of downloadFromYoutube, every key that is updated or deleted is   *)
(* in downloads_dict: no call raises KeyError.                               *)
C39_KeysAlwaysFound == \A t \in HookThreads : ~hooks[t].raised

(* youtubeCore.extractSelectedStreams, looked at on its own *)

\* "video" in name.split("/")[0]: the test is a substring test, so the kinds
\* "video" and "audio-video" both pass it.
HasVideo(kind) == kind \in {"video", "audio-video"}

NoStream == [format_id |-> ""]

\* The indexes selectStreams hands over: (category, format) or two such
\* pairs, each category in 1..len(lens), each format in 1..lens[category],
\* and a pair made of one audio and one video category.
ValidPick(g, lens, ix) ==
    /\ Len(ix) \in {2, 4}
    /\ \A c \in {1, 3} : c < Len(ix) =>
          /\ ix[c] \in 1..Len(lens)
          /\ ix[c + 1] \in 1..lens[ix[c]]
    /\ Len(ix) = 4 => {g[ix[1]].key[1], g[ix[3]].key[1]} = {"audio", "video"}

\* extractSelectedStreams.  streamCategories[i] is 0-based: the category
\* whose name is tested is streamCategories[indexes[0]], the one AFTER the
\* category the stream is taken from (indexes[0]-1); past the last category
\* the subscript raises IndexError.  totalSize += None raises TypeError.
extractSelectedStreams(grouped_streams, selected_streams_indexes) ==
    LET ix == selected_streams_indexes
        At(c) == grouped_streams[ix[c]].streams[ix[c + 1]]
        tested == ix[1] + 1
    IN  IF tested > Len(grouped_streams)
        THEN [kind |-> "raised", error |-> "IndexError"]
        ELSE LET videoFirst == HasVideo(grouped_streams[tested].key[1])
                 video == IF videoFirst THEN At(1)
                          ELSE IF Len(ix) > 2 THEN At(3) ELSE NoStream
                 audio == IF ~videoFirst THEN At(1)
                          ELSE IF Len(ix) > 2 THEN At(3) ELSE NoStream
                 used == SelectSeq(<< video, audio >>, LAMBDA s : s # NoStream)
             IN  IF SumSizes(used, 1) = SizeNull
                 THEN [kind |-> "raised", error |-> "TypeError"]
                 ELSE [kind |-> "return",
                       video |-> video,
                       audio |-> audio,
                       selectedFormats |-> FormatSpec(video.format_id, audio.format_id),
                       totalSize |-> SumSizes(used, 1),
                       videoSelected |-> video # NoStream]

\* downloadSingleYoutubeVideo from the grouping to the call: the formats are
\* grouped, the table gives the lengths, the operator's pick is validated
\* and handed to extractSelectedStreams.
extractSelectedStreams_call(fs, ix) ==
    /\ call = NoCall
    /\ LET g == groupYoutubeStreams(fs)
       IN  /\ ValidPick(g, printStreamsTable(g), ix)
           /\ call' = [fn |-> "extractSelectedStreams", grouped_streams |-> g,
                       selected_streams_indexes |-> ix]
           /\ retval' = extractSelectedStreams(g, ix)
    /\ CallFrame

\* Every list of up to MaxPickFormats different formats of the items.
PickStreams == {A139, A140, V134, W247, AV18}

PickCatalogs ==
    {fs \in UNION {[1..n -> PickStreams] : n \in 1..MaxPickFormats} :
        \A i, j \in 1..Len(fs) : i # j => fs[i] # fs[j]}

PickIndexes == UNION {[1..n -> 1..MaxPickFormats] : n \in {2, 4}}

NextPick ==
    \/ \E fs \in PickCatalogs, ix \in PickIndexes : extractSelectedStreams_call(fs, ix)
    \/ Return

SpecPick == InitWith(0, 0, 0) /\ [][NextPick]_vars

\* The kind of the category a stream was filed under.
PickedFrom(stream) == CategoryOf(stream)[1]

(* C40: for every pick that is valid against the category sizes, the last    *)
(* category included, extractSelectedStreams returns, the stream it uses as  *)
(* the video component was picked from a video or audio-video category, and  *)
(* the stream it uses as the audio component from an audio category.         *)
C40_PickResolved ==
    call.fn = "extractSelectedStreams"
        => /\ retval.kind = "return"
           /\ retval.video # NoStream => HasVideo(PickedFrom(retval.video))
           /\ retval.audio # NoStream => PickedFrom(retval.audio) = "audio"

====
